---- MODULE Spec2Model ----
(***************************************************************************)
(* Laelia chord synth: the audio engine (voice ledger, performance modes,  *)
(* arpeggiator, staggered attacks), the on-screen keyboard's input         *)
(* arbitration and the LaeliaSynth component that connects the two.        *)
(*                                                                         *)
(* A pitch ("C#3") is the pair <<name, octave>>.  Every handler runs to    *)
(* completion as one action; the calls it makes on the tone generator and  *)
(* the signals it sends upstream are recorded, in order, in trace.         *)
(***************************************************************************)
EXTENDS Integers, Sequences, FiniteSets, TLC

\* ---------------------------------------------------------------- bounds
NumPointers == 2
MaxArpTimers == 2

\* keys offered to the input sources (a subset of the 13 keys 0..12) and the
\* chord types the chord buttons switch between
Keys == {0, 4}
ChordTypes == {"maj", "min"}
Pointers == 1..NumPointers

\* ------------------------------------------------------- program constants
CHORD_INTERVALS ==
  [maj |-> <<0, 4, 7>>, min |-> <<0, 3, 7>>, dim |-> <<0, 3, 6>>, sus |-> <<0, 5, 7>>]

EXTENSION_INTERVALS == ("6" :> 9) @@ ("m7" :> 10) @@ ("M7" :> 11) @@ ("9" :> 14)

NOTE_NAMES == <<"C", "C#", "D", "D#", "E", "F", "F#", "G", "G#", "A", "A#", "B">>

PERFORMANCE_MODES == {"poly", "strum", "arp", "harp"}

\* null for a pitch, a timer handle and a key
NoNote == <<>>
NoTimer == 0
NoKey == -1

\* ------------------------------------------------------------------ state
VARIABLES
  \* module and browser
  toneModule,          \* the lazily loaded Tone module is present
  ctxState,            \* AudioContext state: "none" | "suspended" | "running"
  resumeRequested,     \* a resume() call is outstanding on the context
  arpTimers,           \* handles of the pending arp timeouts
  arpDelays,           \* <<handle, delay in ms>> of each pending arp timeout
  attackTimers,        \* pending strum/harp timeouts: [id, note, by]
  \* AudioEngine fields
  synth, bassSynth, initialized,
  analyser,            \* the analyser and the effects chain are assigned
  backends,            \* how many times init has built the whole backend
  arpTimeout, arpIndex, currentArpNote, currentBassNote, currentChordNotes,
  activeVoices, arpSequence, arpTransitionQueue,
  scheduledAttacks,
  performanceMode, chordType, extensions, key, chordVoicing, bassVoicing,
  currentNote, bpm,
  \* Keyboard component
  activePointers, keyboardKeys,
  \* Keyboard component of the landscape layout (holder sets)
  noteHolders,         \* key -> the sources holding it (pointer ids, 0 = keyboard)
  firstInteractionFired,
  \* LaeliaSynth component
  isReady, isInitializing, initStarted, pressedKeys, currentChord,
  uiPerformanceMode, uiChordType,
  ensureAudioPc,       \* position of the ensureAudio call in flight
  directAudioPc,       \* position of an ensureAudio call made by a control
  mounted,             \* the LaeliaSynth component is mounted
  \* the last handler that ran, what it emitted and what playNote returned
  event, trace, ret

vars ==
  <<toneModule, ctxState, resumeRequested, arpTimers, attackTimers,
    synth, bassSynth, initialized,
    arpTimeout, arpIndex, currentArpNote, currentBassNote, currentChordNotes,
    activeVoices, arpSequence, arpTransitionQueue,
    scheduledAttacks,
    performanceMode, chordType, extensions, key, chordVoicing, bassVoicing,
    currentNote,
    activePointers, keyboardKeys,
    isReady, isInitializing, initStarted, pressedKeys, currentChord,
    uiPerformanceMode, uiChordType, ensureAudioPc, event, trace,
    analyser, backends, directAudioPc, mounted, ret, bpm, arpDelays,
    noteHolders, firstInteractionFired>>

\* The whole state as one record, so that a handler is a function from state
\* to state and handlers compose the way the calls nest in the source.
World ==
  [toneModule |-> toneModule, ctxState |-> ctxState,
   resumeRequested |-> resumeRequested,
   arpTimers |-> arpTimers, attackTimers |-> attackTimers,
   synth |-> synth, bassSynth |-> bassSynth, initialized |-> initialized,
   arpTimeout |-> arpTimeout, arpIndex |-> arpIndex,
   currentArpNote |-> currentArpNote, currentBassNote |-> currentBassNote,
   currentChordNotes |-> currentChordNotes,
   activeVoices |-> activeVoices,
   arpSequence |-> arpSequence, arpTransitionQueue |-> arpTransitionQueue,
   scheduledAttacks |-> scheduledAttacks,
   performanceMode |-> performanceMode, chordType |-> chordType,
   extensions |-> extensions, key |-> key, chordVoicing |-> chordVoicing,
   bassVoicing |-> bassVoicing, currentNote |-> currentNote,
   activePointers |-> activePointers, keyboardKeys |-> keyboardKeys,
   isReady |-> isReady, isInitializing |-> isInitializing,
   initStarted |-> initStarted, pressedKeys |-> pressedKeys,
   currentChord |-> currentChord,
   uiPerformanceMode |-> uiPerformanceMode, uiChordType |-> uiChordType,
   ensureAudioPc |-> ensureAudioPc,
   analyser |-> analyser, backends |-> backends,
   directAudioPc |-> directAudioPc, mounted |-> mounted,
   bpm |-> bpm, arpDelays |-> arpDelays,
   noteHolders |-> noteHolders, firstInteractionFired |-> firstInteractionFired,
   event |-> event, trace |-> <<>>, ret |-> ""]

Commit(w) ==
  /\ toneModule' = w.toneModule
  /\ ctxState' = w.ctxState
  /\ resumeRequested' = w.resumeRequested
  /\ arpTimers' = w.arpTimers
  /\ attackTimers' = w.attackTimers
  /\ synth' = w.synth
  /\ bassSynth' = w.bassSynth
  /\ initialized' = w.initialized
  /\ arpTimeout' = w.arpTimeout
  /\ arpIndex' = w.arpIndex
  /\ currentArpNote' = w.currentArpNote
  /\ currentBassNote' = w.currentBassNote
  /\ currentChordNotes' = w.currentChordNotes
  /\ activeVoices' = w.activeVoices
  /\ arpSequence' = w.arpSequence
  /\ arpTransitionQueue' = w.arpTransitionQueue
  /\ scheduledAttacks' = w.scheduledAttacks
  /\ performanceMode' = w.performanceMode
  /\ chordType' = w.chordType
  /\ extensions' = w.extensions
  /\ key' = w.key
  /\ chordVoicing' = w.chordVoicing
  /\ bassVoicing' = w.bassVoicing
  /\ currentNote' = w.currentNote
  /\ activePointers' = w.activePointers
  /\ keyboardKeys' = w.keyboardKeys
  /\ isReady' = w.isReady
  /\ isInitializing' = w.isInitializing
  /\ initStarted' = w.initStarted
  /\ pressedKeys' = w.pressedKeys
  /\ currentChord' = w.currentChord
  /\ uiPerformanceMode' = w.uiPerformanceMode
  /\ uiChordType' = w.uiChordType
  /\ ensureAudioPc' = w.ensureAudioPc
  /\ analyser' = w.analyser
  /\ backends' = w.backends
  /\ directAudioPc' = w.directAudioPc
  /\ mounted' = w.mounted
  /\ bpm' = w.bpm
  /\ arpDelays' = w.arpDelays
  /\ noteHolders' = w.noteHolders
  /\ firstInteractionFired' = w.firstInteractionFired
  /\ ret' = w.ret
  /\ event' = w.event
  /\ trace' = w.trace

\* ---------------------------------------------------- tone generator calls
Ev(op, k, n) == [op |-> op, key |-> k, note |-> n]
Attack(n) == Ev("triggerAttack", NoKey, n)
Release(n) == Ev("triggerRelease", NoKey, n)
ReleaseAll == Ev("releaseAll", NoKey, NoNote)
BassAttack(n) == Ev("bassAttack", NoKey, n)
BassRelease == Ev("bassRelease", NoKey, NoNote)
Resume == Ev("resume", NoKey, NoNote)
NoteOn(k) == Ev("onNoteOn", k, NoNote)
NoteOff(k) == Ev("onNoteOff", k, NoNote)

Emit(w, e) == [w EXCEPT !.trace = Append(@, e)]
EmitAll(w, es) == [w EXCEPT !.trace = @ \o es]

\* ------------------------------------------------------------ chord theory
\* NOTE_NAMES.indexOf(name)
NoteIndex ==
  [n \in {NOTE_NAMES[i] : i \in 1..Len(NOTE_NAMES)} |->
     (CHOOSE i \in 1..Len(NOTE_NAMES) :
        NOTE_NAMES[i] = n /\ \A j \in 1..(i - 1) : NOTE_NAMES[j] # n) - 1]
IndexOf(name) == IF name \in DOMAIN NoteIndex THEN NoteIndex[name] ELSE -1

\* the pattern ^([A-G]#?)(\d+)$ does not match a negative octave
noteToMidi(note) ==
  IF note = NoNote \/ note[2] < 0 THEN 0
  ELSE (note[2] + 1) * 12 + IndexOf(note[1])

midiToNote(midi) == <<NOTE_NAMES[(midi % 12) + 1], (midi \div 12) - 1>>

\* Array.prototype.sort with a numeric comparator: stable, ascending by rank
RECURSIVE InsertBy(_, _, _)
InsertBy(rank(_), x, sorted) ==
  IF sorted = <<>> THEN <<x>>
  ELSE IF rank(x) < rank(Head(sorted)) THEN <<x>> \o sorted
  ELSE <<Head(sorted)>> \o InsertBy(rank, x, Tail(sorted))

RECURSIVE SortBy(_, _)
SortBy(rank(_), seq) ==
  IF seq = <<>> THEN <<>>
  ELSE InsertBy(rank, seq[Len(seq)], SortBy(rank, SubSeq(seq, 1, Len(seq) - 1)))

Identity(x) == x

\* voicing loop: for (i = 0; i < voicing; i++) notes[i % notes.length] += 12
RECURSIVE RaiseVoicing(_, _, _)
RaiseVoicing(notes, i, voicing) ==
  IF i >= voicing \/ Len(notes) = 0 THEN notes
  ELSE RaiseVoicing([notes EXCEPT ![(i % Len(notes)) + 1] = @ + 12], i + 1, voicing)

\* chordVoicing is held in quarters, so that floor(chordVoicing * 4) is the
\* field itself; extensions is the Set in insertion order
buildChord(w, rootMidi) ==
  LET intervals == CHORD_INTERVALS[w.chordType]
                     \o [i \in 1..Len(w.extensions) |-> EXTENSION_INTERVALS[w.extensions[i]]]
      notes == [i \in 1..Len(intervals) |-> rootMidi + intervals[i]]
  IN SortBy(Identity, RaiseVoicing(notes, 0, w.chordVoicing))

HasExt(w, e) == \E i \in 1..Len(w.extensions) : w.extensions[i] = e

\* getChordName appending "6" before "9"
getChordName_SixBeforeNine(w, rootMidi) ==
  LET rootNote == NOTE_NAMES[(rootMidi % 12) + 1]
      typeName == CASE w.chordType = "maj" -> ""
                    [] w.chordType = "min" -> "m"
                    [] w.chordType = "dim" -> "dim"
                    [] w.chordType = "sus" -> "sus4"
      ext7 == IF HasExt(w, "M7") THEN "maj7" ELSE IF HasExt(w, "m7") THEN "7" ELSE ""
      ext9 == IF HasExt(w, "9") THEN "9" ELSE ""
      ext6 == IF HasExt(w, "6") THEN "6" ELSE ""
  IN rootNote \o typeName \o ext7 \o ext6 \o ext9

getChordName(w, rootMidi) ==
  LET rootNote == NOTE_NAMES[(rootMidi % 12) + 1]
      typeName == CASE w.chordType = "maj" -> ""
                    [] w.chordType = "min" -> "m"
                    [] w.chordType = "dim" -> "dim"
                    [] w.chordType = "sus" -> "sus4"
      ext7 == IF HasExt(w, "M7") THEN "maj7" ELSE IF HasExt(w, "m7") THEN "7" ELSE ""
      ext9 == IF HasExt(w, "9") THEN "9" ELSE ""
      ext6 == IF HasExt(w, "6") THEN "6" ELSE ""
  IN rootNote \o typeName \o ext7 \o ext9 \o ext6

\* ------------------------------------------------------------ voice ledger
\* activeVoices is the Map in insertion order: a sequence of
\* [key, notes, bassNote].  activeNotesModes, the per-pitch colour of the
\* active-notes readout, is written alongside it and read by getActiveNotes
\* only; it is left out.
HasVoice(w, k) == \E i \in 1..Len(w.activeVoices) : w.activeVoices[i].key = k
VoiceOf(w, k) ==
  w.activeVoices[CHOOSE i \in 1..Len(w.activeVoices) : w.activeVoices[i].key = k]

RECURSIVE Flatten(_)
Flatten(seqs) == IF seqs = <<>> THEN <<>> ELSE Head(seqs) \o Flatten(Tail(seqs))

\* Map.delete
VoicesDelete(voices, k) == LET Other(v) == v.key # k IN SelectSeq(voices, Other)

\* Map.set: an existing key keeps its place, a new one goes last
VoicesSet(voices, k, notes, bassNote) ==
  LET entry == [key |-> k, notes |-> notes, bassNote |-> bassNote]
  IN IF \E i \in 1..Len(voices) : voices[i].key = k
       THEN [i \in 1..Len(voices) |-> IF voices[i].key = k THEN entry ELSE voices[i]]
       ELSE Append(voices, entry)

\* Array.from(activeVoices.values()).flatMap(v => v.notes)
AllVoiceNotes(voices) == Flatten([i \in 1..Len(voices) |-> voices[i].notes])

SeqToSet(seq) == {seq[i] : i \in 1..Len(seq)}

\* a Set built by add() keeps the first occurrence of each element
RECURSIVE Dedup(_)
Dedup(seq) ==
  IF seq = <<>> THEN <<>>
  ELSE LET init == Dedup(SubSeq(seq, 1, Len(seq) - 1))
           last == seq[Len(seq)]
       IN IF last \in SeqToSet(init) THEN init ELSE Append(init, last)


\* ------------------------------------------------------------- AudioEngine
isReadyEngine(w) == w.toneModule /\ w.initialized /\ w.ctxState = "running"

\* T.start(); if suspended ctx.resume(); raw.resume(): asks the browser to
\* run the context.  Without the module it returns at once.
unlockAudio(w) ==
  IF ~w.toneModule THEN w
  ELSE [Emit(w, Resume) EXCEPT !.resumeRequested = (w.ctxState # "running")]

ClearScheduledAttacks(w) ==
  [w EXCEPT !.attackTimers = {t \in @ : t.id \notin SeqToSet(w.scheduledAttacks)},
            !.scheduledAttacks = <<>>]

\* stopArp: clearTimeout(arpTimeout)
ClearArpTimeout(w) ==
  IF w.arpTimeout # NoTimer
    THEN [w EXCEPT !.arpTimers = @ \ {w.arpTimeout},
                   !.arpDelays = {t \in @ : t[1] # w.arpTimeout},
                   !.arpTimeout = NoTimer]
    ELSE w

\* stopArp: release the arp pitch that is sounding
ReleaseArpNote(w) ==
  IF w.currentArpNote # NoNote /\ w.synth /\ w.toneModule
    THEN [Emit(w, Release(w.currentArpNote)) EXCEPT !.currentArpNote = NoNote]
    ELSE w

stopArp(w) ==
  [ReleaseArpNote(ClearArpTimeout(w))
     EXCEPT !.arpIndex = 0, !.arpSequence = <<>>, !.arpTransitionQueue = <<>>]

setPerformanceMode(w, mode) == stopArp([w EXCEPT !.performanceMode = mode])

setChordType(w, type) == [w EXCEPT !.chordType = type]

\* updateBpm: the transport, the delay time and the tremolo follow; the arp
\* reads state.bpm when it arms its next timeout
updateBpm(w, b) == [w EXCEPT !.bpm = b]

\* arpTick: release the current pitch
ReleaseCurrentArp(w) ==
  IF w.currentArpNote # NoNote THEN Emit(w, Release(w.currentArpNote)) ELSE w

\* arpTick advancing arpIndex also when it takes a pitch of the queue
AdvanceArp_QueueMovesIndex(w) ==
  IF Len(w.arpTransitionQueue) > 0
    THEN [Emit(w, Attack(Head(w.arpTransitionQueue)))
            EXCEPT !.currentArpNote = Head(w.arpTransitionQueue),
                   !.arpTransitionQueue = Tail(w.arpTransitionQueue),
                   !.arpIndex = IF Len(w.arpSequence) > 0
                                  THEN (@ + 1) % Len(w.arpSequence) ELSE @]
  ELSE IF Len(w.arpSequence) > 0
    THEN LET idx == (w.arpIndex + 1) % Len(w.arpSequence)
         IN [Emit(w, Attack(w.arpSequence[idx + 1]))
               EXCEPT !.arpIndex = idx, !.currentArpNote = w.arpSequence[idx + 1]]
  ELSE w

\* arpTick incrementing arpIndex without reducing it, the read alone reduced
AdvanceArp_IndexUnreduced(w) ==
  IF Len(w.arpTransitionQueue) > 0
    THEN [Emit(w, Attack(Head(w.arpTransitionQueue)))
            EXCEPT !.currentArpNote = Head(w.arpTransitionQueue),
                   !.arpTransitionQueue = Tail(w.arpTransitionQueue)]
  ELSE IF Len(w.arpSequence) > 0
    THEN LET idx == (w.arpIndex + 1) % Len(w.arpSequence)
         IN [Emit(w, Attack(w.arpSequence[idx + 1]))
               EXCEPT !.arpIndex = w.arpIndex + 1,
                      !.currentArpNote = w.arpSequence[idx + 1]]
  ELSE w

\* arpTick: take the next pitch of the transition queue, else of the sequence
AdvanceArp(w) ==
  IF Len(w.arpTransitionQueue) > 0
    THEN [Emit(w, Attack(Head(w.arpTransitionQueue)))
            EXCEPT !.currentArpNote = Head(w.arpTransitionQueue),
                   !.arpTransitionQueue = Tail(w.arpTransitionQueue)]
  ELSE IF Len(w.arpSequence) > 0
    THEN LET idx == (w.arpIndex + 1) % Len(w.arpSequence)
         IN [Emit(w, Attack(w.arpSequence[idx + 1]))
               EXCEPT !.arpIndex = idx, !.currentArpNote = w.arpSequence[idx + 1]]
  ELSE w

arpTick(w) ==
  IF ~w.synth \/ ~w.toneModule THEN w ELSE AdvanceArp(ReleaseCurrentArp(w))

\* setTimeout returns a handle no pending timeout has
FreshArpTimer(w) == CHOOSE h \in 1..(Cardinality(w.arpTimers) + 1) : h \notin w.arpTimers

\* the delay of the timeout: 60000 / bpm / 2
ArpInterval(b) == (60000 \div b) \div 2

\* scheduleNextArpTick arming every timeout with the delay for 120 bpm
scheduleNextArpTick_FixedPeriod(w) ==
  LET h == FreshArpTimer(w)
  IN [w EXCEPT !.arpTimeout = h, !.arpTimers = @ \cup {h},
               !.arpDelays = {t \in @ : t[1] \in w.arpTimers}
                               \cup {<<h, ArpInterval(120)>>}]

\* arpDelays keeps the timeouts that are still pending and the new one
scheduleNextArpTick(w) ==
  LET h == FreshArpTimer(w)
  IN [w EXCEPT !.arpTimeout = h, !.arpTimers = @ \cup {h},
               !.arpDelays = {t \in @ : t[1] \in w.arpTimers}
                               \cup {<<h, ArpInterval(w.bpm)>>}]

getAllArpNotes(w) == SortBy(noteToMidi, Dedup(AllVoiceNotes(w.activeVoices)))

Abs(x) == IF x < 0 THEN -x ELSE x

\* buildArpTransition queueing the whole new sequence
buildArpTransition_WholeSequence(fromNote, newSequence) == newSequence

\* buildArpTransition queueing the nearest member also when it is the
\* current pitch
buildArpTransition_QueueNearest(fromNote, newSequence) ==
  IF Len(newSequence) = 0 THEN <<>>
  ELSE
    LET currentMidi == noteToMidi(fromNote)
        Dist(i) == Abs(noteToMidi(newSequence[i]) - currentMidi)
        nearestIdx == CHOOSE i \in 1..Len(newSequence) :
                        /\ \A j \in 1..Len(newSequence) : Dist(i) <= Dist(j)
                        /\ \A j \in 1..(i - 1) : Dist(j) > Dist(i)
    IN <<newSequence[nearestIdx]>>

buildArpTransition(fromNote, newSequence) ==
  IF Len(newSequence) = 0 THEN <<>>
  ELSE
    LET currentMidi == noteToMidi(fromNote)
        Dist(i) == Abs(noteToMidi(newSequence[i]) - currentMidi)
        nearestIdx == CHOOSE i \in 1..Len(newSequence) :
                        /\ \A j \in 1..Len(newSequence) : Dist(i) <= Dist(j)
                        /\ \A j \in 1..(i - 1) : Dist(j) > Dist(i)
        targetMidi == noteToMidi(newSequence[nearestIdx])
        Up(n) == noteToMidi(n) > currentMidi /\ noteToMidi(n) <= targetMidi
        Down(n) == noteToMidi(n) >= targetMidi /\ noteToMidi(n) < currentMidi
        descending == SelectSeq(newSequence, Down)
    IN IF targetMidi > currentMidi THEN SelectSeq(newSequence, Up)
       ELSE IF targetMidi < currentMidi
         THEN [i \in 1..Len(descending) |-> descending[Len(descending) + 1 - i]]
       ELSE <<>>

\* updateArpSequence starting the round again at index 0 on every rebuild
updateArpSequence_ResetsIndex(w) ==
  IF w.performanceMode # "arp" THEN w
  ELSE
    LET newSequence == getAllArpNotes(w)
    IN IF w.arpTimeout = NoTimer \/ Len(w.arpSequence) = 0
         THEN [w EXCEPT !.arpSequence = newSequence, !.arpIndex = 0]
       ELSE IF w.currentArpNote # NoNote /\ Len(newSequence) > 0
         THEN [w EXCEPT !.arpTransitionQueue = buildArpTransition(w.currentArpNote, newSequence),
                        !.arpSequence = newSequence, !.arpIndex = 0]
       ELSE [w EXCEPT !.arpSequence = newSequence, !.arpIndex = 0]

updateArpSequence(w) ==
  IF w.performanceMode # "arp" THEN w
  ELSE
    LET newSequence == getAllArpNotes(w)
    IN IF w.arpTimeout = NoTimer \/ Len(w.arpSequence) = 0
         THEN [w EXCEPT !.arpSequence = newSequence, !.arpIndex = 0]
       ELSE IF w.currentArpNote # NoNote /\ Len(newSequence) > 0
         THEN [w EXCEPT !.arpTransitionQueue = buildArpTransition(w.currentArpNote, newSequence),
                        !.arpSequence = newSequence]
       ELSE [w EXCEPT !.arpSequence = newSequence]

\* releaseVoice: triggerRelease of every note of the voice, then delete it
ReleaseVoiceNotes(w, noteIndex) ==
  [(IF w.synth
      THEN EmitAll(w, [i \in 1..Len(VoiceOf(w, noteIndex).notes) |->
                         Release(VoiceOf(w, noteIndex).notes[i])])
      ELSE w)
     EXCEPT !.activeVoices = VoicesDelete(@, noteIndex)]

\* releaseVoice, releaseSpecificNote: with keys left in arp mode rebuild the
\* sequence; refresh the display list
AfterRemoval(w) ==
  [(IF w.performanceMode = "arp" /\ Len(w.activeVoices) > 0
      THEN updateArpSequence(w) ELSE w)
     EXCEPT !.currentChordNotes = AllVoiceNotes(w.activeVoices)]

releaseVoice(w, noteIndex) ==
  IF ~HasVoice(w, noteIndex) \/ ~w.toneModule THEN w
  ELSE AfterRemoval(ReleaseVoiceNotes(w, noteIndex))

MaxAttackId(w) ==
  LET ids == SeqToSet(w.scheduledAttacks) \cup {t.id : t \in w.attackTimers}
  IN IF ids = {} THEN 0 ELSE CHOOSE m \in ids : \A i \in ids : i <= m

\* notes.slice(1).forEach((note, i) =>
\*   scheduledAttacks.push(setTimeout(attack note, (i + 1) * stagger)))
\* A timeout is [id, note, by]: its handle, the pitch its callback attacks
\* and the key whose press created it.
ScheduleAttacks(w, noteIndex, notes) ==
  LET base == MaxAttackId(w)
      rest == Tail(notes)
  IN [w EXCEPT !.attackTimers = @ \cup {[id |-> base + i, note |-> rest[i], by |-> noteIndex] :
                                          i \in 1..Len(rest)},
               !.scheduledAttacks = @ \o [i \in 1..Len(rest) |-> base + i]]

\* playNote leaving the other keys' entries in the ledger in a non-arp mode
ReleasePrior_KeepLedger(w, noteIndex) ==
  IF w.performanceMode # "arp"
    THEN Emit(ClearScheduledAttacks(w), ReleaseAll)
    ELSE releaseVoice(w, noteIndex)

\* playNote without the release of what was sounding before
ReleasePrior_Skip(w, noteIndex) == w

\* the head of playNote: in a non-arp mode cancel the pending attacks,
\* releaseAll and clear the ledger; in arp mode release this key's old voice
ReleasePrior(w, noteIndex) ==
  IF w.performanceMode # "arp"
    THEN [Emit(ClearScheduledAttacks(w), ReleaseAll) EXCEPT !.activeVoices = <<>>]
    ELSE releaseVoice(w, noteIndex)

\* playNote: noteStrings, the chord of the key as pitch names
ChordNotes(w, noteIndex) ==
  LET chordMidi == buildChord(w, 48 + noteIndex + w.key)
  IN [i \in 1..Len(chordMidi) |-> midiToNote(chordMidi[i])]

\* playNote, harp: [...noteStrings, ...octaveUpNotes]
HarpNotes(w, noteIndex) ==
  LET chordMidi == buildChord(w, 48 + noteIndex + w.key)
  IN ChordNotes(w, noteIndex)
       \o [i \in 1..Len(chordMidi) |-> midiToNote(chordMidi[i] + 12)]

\* bassVoicing is held in halves, so that floor(bassVoicing * 2) is the field
BassNoteOf(w, noteIndex) ==
  <<NOTE_NAMES[((48 + noteIndex + w.key) % 12) + 1], 2 + w.bassVoicing>>

\* playNote: release the previous bass note, attack the new one
AttackBass(w, noteIndex) ==
  [Emit(IF w.currentBassNote # NoNote THEN Emit(w, BassRelease) ELSE w,
        BassAttack(BassNoteOf(w, noteIndex)))
     EXCEPT !.currentNote = noteIndex, !.currentBassNote = BassNoteOf(w, noteIndex)]

\* playNote: activeVoices.set, the display list and the returned chord name
Track(w, noteIndex, notes) ==
  [w EXCEPT !.activeVoices = VoicesSet(@, noteIndex, notes, BassNoteOf(w, noteIndex)),
            !.currentChordNotes =
              AllVoiceNotes(VoicesSet(w.activeVoices, noteIndex, notes,
                                      BassNoteOf(w, noteIndex))),
            !.ret = getChordName(w, 48 + noteIndex + w.key)]

\* case 'poly'
AttackTogether(w, noteIndex, notes) ==
  Track(EmitAll(w, [i \in 1..Len(notes) |-> Attack(notes[i])]), noteIndex, notes)

\* case 'strum', case 'harp'
AttackStaggered(w, noteIndex, notes) ==
  Track(ScheduleAttacks(Emit(w, Attack(notes[1])), noteIndex, notes), noteIndex, notes)

\* case 'arp', first key: start the arpeggiator on the sequence seq
StartArp(w, seq) ==
  scheduleNextArpTick(
    IF Len(seq) > 0
      THEN [Emit(w, Attack(seq[1]))
              EXCEPT !.arpSequence = seq, !.arpIndex = 0, !.currentArpNote = seq[1]]
      ELSE [w EXCEPT !.arpSequence = seq, !.arpIndex = 0])

\* case 'arp', once the voice is in the ledger
ArpVoice(w, noteIndex) ==
  [(IF Len(w.activeVoices) = 1 THEN StartArp(w, getAllArpNotes(w))
                                ELSE updateArpSequence(w))
     EXCEPT !.currentChordNotes = AllVoiceNotes(w.activeVoices),
            !.ret = getChordName(w, 48 + noteIndex + w.key)]

\* case 'arp'
PlayArp(w, noteIndex, notes) ==
  ArpVoice([w EXCEPT !.activeVoices =
                       VoicesSet(@, noteIndex, notes, BassNoteOf(w, noteIndex))],
           noteIndex)

\* playNote: switch (performanceMode)
PlayVoice(w, noteIndex) ==
  CASE w.performanceMode = "poly" ->
         AttackTogether(w, noteIndex, ChordNotes(w, noteIndex))
    [] w.performanceMode = "strum" ->
         AttackStaggered(w, noteIndex, ChordNotes(w, noteIndex))
    [] w.performanceMode = "harp" ->
         AttackStaggered(w, noteIndex, HarpNotes(w, noteIndex))
    [] w.performanceMode = "arp" ->
         PlayArp(w, noteIndex, ChordNotes(w, noteIndex))

\* playNote without the isReady test
playNote_Unguarded(w, noteIndex) ==
  PlayVoice(AttackBass(ReleasePrior(w, noteIndex), noteIndex), noteIndex)

playNote(w, noteIndex) ==
  IF ~isReadyEngine(w) \/ ~w.synth \/ ~w.bassSynth THEN [w EXCEPT !.ret = ""]
  ELSE PlayVoice(AttackBass(ReleasePrior(w, noteIndex), noteIndex), noteIndex)

StopEverything(w) ==
  [EmitAll(ClearScheduledAttacks(stopArp(w)), <<ReleaseAll, BassRelease>>)
     EXCEPT !.currentBassNote = NoNote, !.currentChordNotes = <<>>,
            !.currentNote = -1]

\* releaseKey: if no more voices, stop everything
StopIfEmpty(w) == IF Len(w.activeVoices) = 0 THEN StopEverything(w) ELSE w

\* releaseKey stopping everything for a key that has no ledger entry
releaseKey_StopsWhenMissing(w, noteIndex) ==
  IF ~w.synth \/ ~w.bassSynth THEN w
  ELSE IF ~HasVoice(w, noteIndex) THEN StopEverything(w)
  ELSE StopIfEmpty(releaseVoice(w, noteIndex))

releaseKey(w, noteIndex) ==
  IF ~w.synth \/ ~w.bassSynth THEN w
  ELSE IF ~HasVoice(w, noteIndex) THEN w
  ELSE StopIfEmpty(releaseVoice(w, noteIndex))

releaseNote(w) ==
  IF ~w.synth \/ ~w.bassSynth \/ ~w.toneModule THEN w
  ELSE [StopEverything(w) EXCEPT !.activeVoices = <<>>]

\* releaseSpecificNote keeping the voices it has left without notes
RemovePitch_KeepEmptyVoices(w, noteToRelease) ==
  LET Keep(n) == n # noteToRelease
  IN [Emit(w, Release(noteToRelease))
        EXCEPT !.activeVoices =
                 [i \in 1..Len(w.activeVoices) |->
                    [w.activeVoices[i] EXCEPT !.notes = SelectSeq(@, Keep)]]]

\* releaseSpecificNote: release the pitch, take it out of every voice and
\* delete the voices left without notes
RemovePitch(w, noteToRelease) ==
  LET Keep(n) == n # noteToRelease
      NonEmpty(v) == Len(v.notes) > 0
  IN [Emit(w, Release(noteToRelease))
        EXCEPT !.activeVoices =
                 SelectSeq([i \in 1..Len(w.activeVoices) |->
                              [w.activeVoices[i] EXCEPT !.notes = SelectSeq(@, Keep)]],
                           NonEmpty)]

releaseSpecificNote(w, noteToRelease) ==
  IF ~w.synth \/ ~w.toneModule THEN w
  ELSE AfterRemoval(RemovePitch(w, noteToRelease))

\* ------------------------------------------------------------- LaeliaSynth
\* dispose: the synths and effects are disposed but stay referenced
DisposeNodes == Ev("dispose", NoKey, NoNote)

dispose(w) ==
  [(IF w.synth THEN Emit(ClearScheduledAttacks(stopArp(w)), DisposeNodes)
               ELSE ClearScheduledAttacks(stopArp(w)))
     EXCEPT !.activeVoices = <<>>, !.currentChordNotes = <<>>,
            !.currentNote = -1, !.initialized = FALSE]

\* ensureAudio up to its first await (await loadTone()).  The callback closes
\* over the isReady of the render that made it: a call made while isReady
\* was true skips ensureReady after the load, whatever happens meanwhile.
AwaitLoadTone(w) == IF w.isReady THEN "loadToneReady" ELSE "loadTone"

\* triggerAudioInit: the first call starts ensureAudio, which runs up to its
\* first await and returns to the caller
triggerAudioInit(w) ==
  IF w.initStarted THEN w
  ELSE [w EXCEPT !.initStarted = TRUE, !.ensureAudioPc = AwaitLoadTone(w)]

\* setCurrentChord(chordName)
StoreChordName(w) == [w EXCEPT !.currentChord = w.ret]

\* handleNoteOn once the initialization has been triggered
NoteOnWhenReady(w, note) ==
  IF ~isReadyEngine(w) THEN w
  ELSE StoreChordName(playNote([w EXCEPT !.pressedKeys = @ \cup {note}], note))

handleNoteOn(w, note) == NoteOnWhenReady(triggerAudioInit(w), note)

\* handleNoteOff leaving the engine alone while other keys are pressed
handleNoteOff_KeepVoice(w, note) ==
  [(IF w.pressedKeys \ {note} = {}
      THEN [releaseNote(w) EXCEPT !.currentChord = ""]
      ELSE w)
     EXCEPT !.pressedKeys = @ \ {note}]

\* handleNoteOff releasing everything whichever keys stay pressed
handleNoteOff_ReleaseAll(w, note) ==
  [[releaseNote(w) EXCEPT !.currentChord = ""] EXCEPT !.pressedKeys = @ \ {note}]

handleNoteOff(w, note) ==
  [(IF w.pressedKeys \ {note} = {}
      THEN [releaseNote(w) EXCEPT !.currentChord = ""]
      ELSE releaseKey(w, note))
     EXCEPT !.pressedKeys = @ \ {note}]

handleRemoveActiveNote(w, note) == releaseSpecificNote(w, note)

\* window blur / tab hidden in LaeliaSynth
releaseEverything(w) ==
  [(IF w.pressedKeys = {} THEN w ELSE [releaseNote(w) EXCEPT !.pressedKeys = {}])
     EXCEPT !.currentChord = ""]

\* the effects that copy the component's parameters into the engine: each
\* runs when its parameter changes, and all of them when isReady becomes true
SyncChordType(w) == IF w.isReady THEN setChordType(w, w.uiChordType) ELSE w
SyncPerformanceMode(w) ==
  IF w.isReady THEN setPerformanceMode(w, w.uiPerformanceMode) ELSE w
SyncParameters(w) == SyncPerformanceMode(SyncChordType(w))

\* ---------------------------------------------------------------- Keyboard
onNoteOn(w, note) == handleNoteOn(Emit(w, NoteOn(note)), note)
onNoteOff(w, note) == handleNoteOff(Emit(w, NoteOff(note)), note)

isNoteHeldByAnySource(w, note) ==
  \/ \E p \in Pointers : w.activePointers[p] = note
  \/ note \in w.keyboardKeys

\* "only release if no other source is holding this note"
ReleaseIfUnheld(w, note) ==
  IF ~isNoteHeldByAnySource(w, note) THEN onNoteOff(w, note) ELSE w

releasePointer(w, pointerId) ==
  IF w.activePointers[pointerId] = NoKey THEN w
  ELSE ReleaseIfUnheld([w EXCEPT !.activePointers[pointerId] = NoKey],
                       w.activePointers[pointerId])

\* handlePointerDown after unlockAudio() and onPointerDownForAudio(); note is
\* what getNoteFromPoint returns for the pointer's position
TrackPointer(w, pointerId, note) ==
  IF ~isReadyEngine(w) THEN w
  ELSE IF note # NoKey
    THEN onNoteOn([w EXCEPT !.activePointers[pointerId] = note], note)
  ELSE w

handlePointerDown(w, pointerId, note) ==
  TrackPointer(triggerAudioInit(unlockAudio(w)), pointerId, note)

\* handlePointerMove: "play new note FIRST"
EnterKey(w, note) == IF note # NoKey THEN onNoteOn(w, note) ELSE w

\* handlePointerMove releasing the old key before entering the new one
handlePointerMove_ReleaseFirst(w, pointerId, newNote) ==
  IF w.activePointers[pointerId] = NoKey THEN w
  ELSE IF newNote = w.activePointers[pointerId] THEN w
  ELSE EnterKey(ReleaseIfUnheld([w EXCEPT !.activePointers[pointerId] = newNote],
                                w.activePointers[pointerId]),
                newNote)

handlePointerMove(w, pointerId, newNote) ==
  IF w.activePointers[pointerId] = NoKey THEN w
  ELSE IF newNote = w.activePointers[pointerId] THEN w
  ELSE ReleaseIfUnheld(EnterKey([w EXCEPT !.activePointers[pointerId] = newNote],
                                newNote),
                       w.activePointers[pointerId])

handlePointerEnd(w, pointerId) == releasePointer(w, pointerId)

handleKeyDown(w, note) ==
  IF ~isReadyEngine(w) THEN w
  ELSE IF note \notin w.keyboardKeys
    THEN onNoteOn([w EXCEPT !.keyboardKeys = @ \cup {note}], note)
  ELSE w

\* handleKeyUp without the isNoteHeldByAnySource test
handleKeyUp_NoHeldTest(w, note) ==
  IF note \in w.keyboardKeys
    THEN onNoteOff([w EXCEPT !.keyboardKeys = @ \ {note}], note)
  ELSE w

handleKeyUp(w, note) ==
  IF note \in w.keyboardKeys
    THEN ReleaseIfUnheld([w EXCEPT !.keyboardKeys = @ \ {note}], note)
  ELSE w

RECURSIVE NoteOffEach(_, _)
NoteOffEach(w, notes) ==
  IF notes = <<>> THEN w ELSE NoteOffEach(onNoteOff(w, Head(notes)), Tail(notes))

\* notes is the claimed keys in the order the sources were added
\* releaseAllInputs leaving the physical keys' claims in place
releaseAllInputs_KeepKeys(w, notes) ==
  NoteOffEach([w EXCEPT !.activePointers = [p \in Pointers |-> NoKey]], notes)

releaseAllInputs(w, notes) ==
  NoteOffEach([w EXCEPT !.activePointers = [p \in Pointers |-> NoKey],
                        !.keyboardKeys = {}],
              notes)

ClaimedKeys(w) == {k \in Keys : isNoteHeldByAnySource(w, k)}

Orderings(S) == {seq \in [1..Cardinality(S) -> S] : SeqToSet(seq) = S}

\* -------------------------------------- Keyboard with holder sets (part_001)
\* noteHoldersRef maps a key to the set of its holders; a key without an
\* entry is a key with the empty set here.  The holder 'keyboard' is 0.
KeyboardHolder == 0

\* addNoteHolder signalling onNoteOn for every holder added
addNoteHolder_SignalsAlways(w, note, holderId) ==
  onNoteOn([w EXCEPT !.noteHolders[note] = @ \cup {holderId}], note)

addNoteHolder(w, note, holderId) ==
  IF w.noteHolders[note] = {}
    THEN onNoteOn([w EXCEPT !.noteHolders[note] = @ \cup {holderId}], note)
    ELSE [w EXCEPT !.noteHolders[note] = @ \cup {holderId}]

removeNoteHolder(w, note, holderId) ==
  IF w.noteHolders[note] = {} THEN w
  ELSE IF w.noteHolders[note] \ {holderId} = {}
    THEN onNoteOff([w EXCEPT !.noteHolders[note] = {}], note)
  ELSE [w EXCEPT !.noteHolders[note] = @ \ {holderId}]

\* the Map is searched in insertion order; a pointer holds one key at most
getPointerNote(w, pointerId) ==
  IF \E k \in Keys : pointerId \in w.noteHolders[k]
    THEN CHOOSE k \in Keys : pointerId \in w.noteHolders[k]
    ELSE NoKey

fireFirstInteraction(w) ==
  IF ~w.firstInteractionFired
    THEN triggerAudioInit([w EXCEPT !.firstInteractionFired = TRUE])
    ELSE w

AddIfOnKey(w, note, holderId) ==
  IF note # NoKey THEN addNoteHolder(w, note, holderId) ELSE w

handlePointerDownHolders(w, pointerId, note) ==
  AddIfOnKey(fireFirstInteraction(w), note, pointerId)

handlePointerMoveHolders(w, pointerId, newNote) ==
  IF getPointerNote(w, pointerId) = NoKey THEN w
  ELSE IF newNote = getPointerNote(w, pointerId) THEN w
  ELSE AddIfOnKey(removeNoteHolder(w, getPointerNote(w, pointerId), pointerId),
                  newNote, pointerId)

handlePointerEndHolders(w, pointerId) ==
  IF getPointerNote(w, pointerId) = NoKey THEN w
  ELSE removeNoteHolder(w, getPointerNote(w, pointerId), pointerId)

handleKeyDownHolders(w, note) ==
  IF KeyboardHolder \in w.noteHolders[note] THEN w
  ELSE addNoteHolder(fireFirstInteraction(w), note, KeyboardHolder)

handleKeyUpHolders(w, note) ==
  IF KeyboardHolder \notin w.noteHolders[note] THEN w
  ELSE removeNoteHolder(w, note, KeyboardHolder)

\* the cleanup on unmount: onNoteOff for every held key, then clear()
\* notes is the held keys in the Map's insertion order
HoldersCleanup(w, notes) ==
  [NoteOffEach(w, notes) EXCEPT !.noteHolders = [k \in Keys |-> {}]]

HeldKeys(w) == {k \in Keys : w.noteHolders[k] # {}}

\* ------------------------------------------------------- initial state
Init ==
  /\ toneModule = FALSE
  /\ ctxState = "none"
  /\ resumeRequested = FALSE
  /\ arpTimers = {}
  /\ attackTimers = {}
  /\ synth = FALSE
  /\ bassSynth = FALSE
  /\ initialized = FALSE
  /\ arpTimeout = NoTimer
  /\ arpIndex = 0
  /\ currentArpNote = NoNote
  /\ currentBassNote = NoNote
  /\ currentChordNotes = <<>>
  /\ activeVoices = <<>>
  /\ arpSequence = <<>>
  /\ arpTransitionQueue = <<>>
  /\ scheduledAttacks = <<>>
  /\ performanceMode = "poly"
  /\ chordType = "maj"
  /\ extensions = <<>>
  /\ key = 0
  /\ chordVoicing = 0
  /\ bassVoicing = 0
  /\ currentNote = -1
  /\ activePointers = [p \in Pointers |-> NoKey]
  /\ keyboardKeys = {}
  /\ isReady = FALSE
  /\ isInitializing = FALSE
  /\ initStarted = FALSE
  /\ pressedKeys = {}
  /\ currentChord = ""
  /\ uiPerformanceMode = "poly"
  /\ uiChordType = "maj"
  /\ ensureAudioPc = "idle"
  /\ analyser = FALSE
  /\ backends = 0
  /\ directAudioPc = "idle"
  /\ mounted = TRUE
  /\ bpm = 120
  /\ arpDelays = {}
  /\ noteHolders = [k \in Keys |-> {}]
  /\ firstInteractionFired = FALSE
  /\ ret = ""
  /\ event = [type |-> "init", src |-> 0, key |-> NoKey]
  /\ trace = <<>>

\* ----------------------------------------------------------------- actions
On(type, src, k) == [World EXCEPT !.event = [type |-> type, src |-> src, key |-> k]]

\* the model keeps at most MaxArpTimers arp timeouts pending
Step(w) == \E v \in {w} : Cardinality(v.arpTimers) <= MaxArpTimers /\ Commit(v)

PointerDown(p, k) ==
  /\ mounted
  /\ activePointers[p] = NoKey
  /\ Step(handlePointerDown(On("pointerdown", p, k), p, k))

PointerMove(p, k) ==
  /\ mounted
  /\ activePointers[p] # NoKey
  /\ k # activePointers[p]
  /\ Step(handlePointerMove(On("pointermove", p, k), p, k))

PointerUp(p) ==
  /\ mounted
  /\ activePointers[p] # NoKey
  /\ Step(handlePointerEnd(On("pointerup", p, activePointers[p]), p))

KeyDown(k) ==
  /\ mounted
  /\ k \notin keyboardKeys
  /\ Step(handleKeyDown(On("keydown", 0, k), k))

KeyUp(k) ==
  /\ mounted
  /\ k \in keyboardKeys
  /\ Step(handleKeyUp(On("keyup", 0, k), k))

\* window blur: the Keyboard's listener (registered first, as the child's
\* effects run first), then LaeliaSynth's
Blur ==
  /\ mounted
  /\ ClaimedKeys(World) # {} \/ pressedKeys # {}
  /\ \E notes \in Orderings(ClaimedKeys(World)) :
       Step(releaseEverything(releaseAllInputs(On("blur", 0, NoKey), notes)))

SetPerformanceMode(m) ==
  /\ mounted
  /\ m # uiPerformanceMode
  /\ Step(SyncPerformanceMode([On("setPerformanceMode", 0, NoKey)
                                 EXCEPT !.uiPerformanceMode = m]))

SetChordType(t) ==
  /\ mounted
  /\ t # uiChordType
  /\ Step(SyncChordType([On("setChordType", 0, NoKey) EXCEPT !.uiChordType = t]))

RemoveActiveNote(n) ==
  /\ mounted
  /\ synth
  /\ Step(handleRemoveActiveNote(On("removeActiveNote", 0, NoKey), n))

\* the arp timeout h fires: arpTick(), then scheduleNextArpTick()
ArpTick(h) ==
  /\ h \in arpTimers
  /\ LET w == [On("arpTick", h, NoKey) EXCEPT !.arpTimers = @ \ {h}]
     IN Step(scheduleNextArpTick(arpTick(w)))

\* the earliest pending staggered attack fires
AttackFire ==
  /\ attackTimers # {}
  /\ LET t == CHOOSE t \in attackTimers : \A u \in attackTimers : t.id <= u.id
         w == [On("attackFire", t.id, NoKey) EXCEPT !.attackTimers = @ \ {t}]
     IN Step(IF w.synth THEN Emit(w, Attack(t.note)) ELSE w)

\* ensureAudio runs once for the keyboard (triggerAudioInit) and once more
\* for each control that calls it directly (power button, dials)
Calls == {"ensureAudioPc", "directAudioPc"}
CallSrc(call) == IF call = "ensureAudioPc" THEN 0 ELSE 1

\* loadTone: toneModule = await import('tone'), which creates the context
ModuleLoaded(w) ==
  [w EXCEPT !.toneModule = TRUE,
            !.ctxState = IF @ = "none" THEN "suspended" ELSE @]

\* init's construction block: analyser and effects, synth, bassSynth,
\* updateVolume, initialized = true
Construct(w) ==
  [w EXCEPT !.ctxState = "running", !.resumeRequested = FALSE,
            !.analyser = TRUE, !.synth = TRUE, !.bassSynth = TRUE,
            !.initialized = TRUE, !.backends = @ + 1]

\* the construction block throwing once `stage` has been assigned; init's
\* catch logs the error and returns false
Stages == {"analyser", "synth"}
ConstructUpTo(w, stage) ==
  [w EXCEPT !.ctxState = "running", !.resumeRequested = FALSE,
            !.analyser = TRUE, !.synth = @ \/ (stage = "synth")]

\* ensureAudio after its race: flushSync(setIsReady, setIsInitializing) and
\* initStartedRef.current = false on failure
CommitAttempt(w, call, success) ==
  IF ~w.mounted THEN [w EXCEPT ![call] = "idle"]
  ELSE [w EXCEPT !.isReady = @ \/ success,
                 !.isInitializing = FALSE,
                 !.initStarted = IF success THEN @ ELSE FALSE,
                 ![call] = "idle"]

ensureAudioSettled(w, call, success) ==
  IF success /\ ~w.isReady /\ w.mounted
    THEN SyncParameters(CommitAttempt(w, call, success))
    ELSE CommitAttempt(w, call, success)

\* ensureReady(): init() returns true at once on an initialized engine,
\* otherwise it runs up to its first await
ensureReady(w, call) ==
  IF w.initialized THEN ensureAudioSettled(w, call, TRUE)
  ELSE [w EXCEPT ![call] = "ensureReady"]

\* ensureAudio from the end of await loadTone() on: unlockAudio(), then
\* setIsInitializing(true) and ensureReady()
afterLoadTone(w, call) ==
  IF w[call] = "loadToneReady" THEN [w EXCEPT ![call] = "idle"]
  ELSE ensureReady([w EXCEPT !.isInitializing = @ \/ w.mounted], call)

LoadToneResolved(call) ==
  /\ World[call] \in {"loadTone", "loadToneReady"}
  /\ Step(afterLoadTone(
            unlockAudio(ModuleLoaded(On("loadToneResolved", CallSrc(call), NoKey))),
            call))

\* import('tone') rejects: ensureAudio rejects at its first await
LoadToneFailed(call) ==
  /\ World[call] \in {"loadTone", "loadToneReady"}
  /\ ~toneModule
  /\ Step([On("loadToneFailed", CallSrc(call), NoKey) EXCEPT ![call] = "idle"])

\* init() goes on after its awaits.  running: whether the context reached
\* "running" before init gave up waiting for it.
EnsureReadySettled(call, running) ==
  /\ World[call] = "ensureReady"
  /\ Step(ensureAudioSettled(
            IF running THEN Construct(On("ensureReadySettled", CallSrc(call), NoKey))
                       ELSE On("ensureReadySettled", CallSrc(call), NoKey),
            call, running))

\* init() goes on after its awaits and its construction block throws
InitThrows(call, stage) ==
  /\ World[call] = "ensureReady"
  /\ Step(ensureAudioSettled(
            ConstructUpTo(On("initThrows", CallSrc(call), NoKey), stage),
            call, FALSE))

\* the power button or a dial: ensureAudio() up to its first await
DirectEnsureAudio ==
  /\ mounted
  /\ directAudioPc = "idle"
  /\ Step([On("ensureAudio", 1, NoKey) EXCEPT !.directAudioPc = AwaitLoadTone(World)])

\* the browser suspends or interrupts a running context
ContextSuspends ==
  /\ ctxState = "running"
  /\ Step([On("contextSuspends", 0, NoKey) EXCEPT !.ctxState = "suspended"])

\* the browser honours an outstanding resume()
ContextResumes ==
  /\ ctxState = "suspended"
  /\ resumeRequested
  /\ Step([On("contextResumes", 0, NoKey)
             EXCEPT !.ctxState = "running", !.resumeRequested = FALSE])

\* ---------------------------------------------------------- specifications
\* The keyboard as the engine sees it: onNoteOn(k) for any key (a second
\* source may enter a key that is already held) and onNoteOff(k) for a held
\* key, signalled only while the engine is ready.
SignalNoteOn(k) ==
  /\ mounted
  /\ isReadyEngine(World)
  /\ Step(onNoteOn(On("onNoteOn", 0, k), k))

SignalNoteOff(k) ==
  /\ mounted
  /\ k \in pressedKeys
  /\ Step(onNoteOff(On("onNoteOff", 0, k), k))

\* a pointer-down on the keyboard before the engine is ready
Gesture ==
  /\ mounted
  /\ ~isReadyEngine(World)
  /\ Step(handlePointerDown(On("pointerdown", 1, NoKey), 1, NoKey))

WindowBlur ==
  /\ mounted
  /\ pressedKeys # {}
  /\ \E notes \in Orderings(pressedKeys) :
       Step(releaseEverything(NoteOffEach(On("blur", 0, NoKey), notes)))

\* LaeliaSynth unmounts with its Keyboard: the Keyboard's cleanup runs
\* releaseAllInputs and LaeliaSynth's cleanup disposes the engine, in either
\* order; the listeners are removed
KeyboardUnmount ==
  /\ mounted
  /\ \E notes \in Orderings(ClaimedKeys(World)), disposeFirst \in BOOLEAN :
       Step([(IF disposeFirst
                THEN releaseAllInputs(dispose(On("unmount", 0, NoKey)), notes)
                ELSE dispose(releaseAllInputs(On("unmount", 0, NoKey), notes)))
               EXCEPT !.mounted = FALSE])

\* Keyboard, LaeliaSynth and engine together, with the mode buttons switching
\* between poly and strum, the browser suspending the context at will and
\* the component unmounting
InputModes == {"poly", "strum"}

Next ==
  \/ \E p \in Pointers, k \in Keys \cup {NoKey} : PointerDown(p, k)
  \/ \E p \in Pointers, k \in Keys \cup {NoKey} : PointerMove(p, k)
  \/ \E p \in Pointers : PointerUp(p)
  \/ \E k \in Keys : KeyDown(k)
  \/ \E k \in Keys : KeyUp(k)
  \/ Blur
  \/ KeyboardUnmount
  \/ \E m \in InputModes : SetPerformanceMode(m)
  \/ AttackFire
  \/ LoadToneResolved("ensureAudioPc")
  \/ \E running \in BOOLEAN : EnsureReadySettled("ensureAudioPc", running)
  \/ ContextSuspends
  \/ ContextResumes

Spec == Init /\ [][Next]_vars

\* the same with one pointer and the physical keyboard as the input sources
\* and the mode buttons switching between poly and arp
LedgerModes == {"poly", "arp"}

NextLedger ==
  \/ \E k \in Keys \cup {NoKey} : PointerDown(1, k)
  \/ \E k \in Keys \cup {NoKey} : PointerMove(1, k)
  \/ PointerUp(1)
  \/ \E k \in Keys : KeyDown(k)
  \/ \E k \in Keys : KeyUp(k)
  \/ Blur
  \/ \E m \in LedgerModes : SetPerformanceMode(m)
  \/ \E h \in arpTimers : ArpTick(h)
  \/ LoadToneResolved("ensureAudioPc")
  \/ \E running \in BOOLEAN : EnsureReadySettled("ensureAudioPc", running)

SpecLedger == Init /\ [][NextLedger]_vars

\* LaeliaSynth and engine in all four modes, driven by the keyboard's signals
NextEngine ==
  \/ Gesture
  \/ \E k \in Keys : SignalNoteOn(k)
  \/ \E k \in Keys : SignalNoteOff(k)
  \/ WindowBlur
  \/ \E m \in PERFORMANCE_MODES : SetPerformanceMode(m)
  \/ \E h \in arpTimers : ArpTick(h)
  \/ AttackFire
  \/ LoadToneResolved("ensureAudioPc")
  \/ \E running \in BOOLEAN : EnsureReadySettled("ensureAudioPc", running)

SpecEngine == Init /\ [][NextEngine]_vars

\* the same in the three non-arp modes, with the chord buttons
NextChord ==
  \/ Gesture
  \/ \E k \in Keys : SignalNoteOn(k)
  \/ \E k \in Keys : SignalNoteOff(k)
  \/ WindowBlur
  \/ \E m \in PERFORMANCE_MODES \ {"arp"} : SetPerformanceMode(m)
  \/ \E t \in ChordTypes : SetChordType(t)
  \/ AttackFire
  \/ LoadToneResolved("ensureAudioPc")
  \/ \E running \in BOOLEAN : EnsureReadySettled("ensureAudioPc", running)

SpecChord == Init /\ [][NextChord]_vars

\* a pointer-down on the keyboard while no keyboard-started ensureAudio is
\* still in flight from an earlier attempt
Tap ==
  /\ initStarted \/ ensureAudioPc = "idle"
  /\ Gesture

\* the same seen from LaeliaSynth, the pressed keys being the claimed ones
Unmount ==
  /\ mounted
  /\ \E notes \in Orderings(pressedKeys), disposeFirst \in BOOLEAN :
       Step([(IF disposeFirst
                THEN NoteOffEach(dispose(On("unmount", 0, NoKey)), notes)
                ELSE dispose(NoteOffEach(On("unmount", 0, NoKey), notes)))
               EXCEPT !.mounted = FALSE])

\* The life of the engine: the keyboard's and a control's ensureAudio calls,
\* the module load and init succeeding or failing, the keyboard's signals in
\* poly and arp, and the unmount
NextLifecycle ==
  \/ Tap
  \/ DirectEnsureAudio
  \/ \E call \in Calls : LoadToneResolved(call)
  \/ \E call \in Calls : LoadToneFailed(call)
  \/ \E call \in Calls, running \in BOOLEAN : EnsureReadySettled(call, running)
  \/ \E call \in Calls, stage \in Stages : InitThrows(call, stage)
  \/ \E k \in Keys : SignalNoteOn(k)
  \/ \E k \in Keys : SignalNoteOff(k)
  \/ \E m \in LedgerModes : SetPerformanceMode(m)
  \/ \E h \in arpTimers : ArpTick(h)
  \/ Unmount

SpecLifecycle == Init /\ [][NextLifecycle]_vars

\* The engine's public methods called directly, in any order and in any
\* state of the engine, with the mode switched from poly to arp
ApiModes == {"arp"}

CallPlayNote(k) ==
  /\ k \in Keys
  /\ Step(playNote(On("playNote", 0, k), k))

CallReleaseKey(k) ==
  /\ k \in Keys
  /\ Step(releaseKey(On("releaseKey", 0, k), k))

CallReleaseNote ==
  /\ TRUE
  /\ Step(releaseNote(On("releaseNote", 0, NoKey)))

\* n: the root pitch of a key's chord
CallReleaseSpecificNote(n) ==
  /\ n # NoNote
  /\ Step(releaseSpecificNote(On("releaseSpecificNote", noteToMidi(n), NoKey), n))

NextApi ==
  \/ Tap
  \/ LoadToneResolved("ensureAudioPc")
  \/ \E running \in BOOLEAN : EnsureReadySettled("ensureAudioPc", running)
  \/ ContextSuspends
  \/ ContextResumes
  \/ \E k \in Keys : CallPlayNote(k)
  \/ \E k \in Keys : CallReleaseKey(k)
  \/ CallReleaseNote
  \/ \E k \in Keys : CallReleaseSpecificNote(Head(ChordNotes(World, k)))
  \/ \E m \in ApiModes : SetPerformanceMode(m)
  \/ \E h \in arpTimers : ArpTick(h)

SpecApi == Init /\ [][NextApi]_vars

\* The arpeggiator alone: three keys whose major chords share no pitch
\* (C E G, C# F G#, D F# A), the mode switched from poly to arp
ArpKeys == {0, 1, 2}

NextArp ==
  \/ Gesture
  \/ LoadToneResolved("ensureAudioPc")
  \/ \E running \in BOOLEAN : EnsureReadySettled("ensureAudioPc", running)
  \/ \E k \in ArpKeys : SignalNoteOn(k)
  \/ \E k \in ArpKeys : SignalNoteOff(k)
  \/ SetPerformanceMode("arp")
  \/ \E h \in arpTimers : ArpTick(h)

SpecArp == Init /\ [][NextArp]_vars

\* The chord controls.  LaeliaSynth keeps the extensions in a Set it copies
\* on every toggle and hands to the engine once isReady holds; the Chord dial
\* writes chordVoicing the same way.  Here the controls are used on a ready
\* synth while no key is pressed.
ToggleSet(exts, ext) ==
  LET Other(e) == e # ext
  IN IF ext \in SeqToSet(exts) THEN SelectSeq(exts, Other) ELSE Append(exts, ext)

toggleExtension(w, ext) == [w EXCEPT !.extensions = ToggleSet(@, ext)]

ToggleExtension(ext) ==
  /\ mounted /\ isReady /\ pressedKeys = {}
  /\ Step(toggleExtension(On("toggleExtension", 0, NoKey), ext))

\* floor(chordVoicing * 4) for a dial value in [0, 1]
VoicingSteps == 0..4

SetChordVoicing(v) ==
  /\ mounted /\ isReady /\ pressedKeys = {}
  /\ v # chordVoicing
  /\ Step([On("setChordVoicing", 0, NoKey) EXCEPT !.chordVoicing = v])

ChooseChordType(t) ==
  /\ pressedKeys = {}
  /\ SetChordType(t)

\* one key at a time, any of the 13 keys
AllKeys == 0..12

Press(k) ==
  /\ pressedKeys = {}
  /\ SignalNoteOn(k)

NextTheory ==
  \/ Gesture
  \/ LoadToneResolved("ensureAudioPc")
  \/ \E running \in BOOLEAN : EnsureReadySettled("ensureAudioPc", running)
  \/ \E ext \in DOMAIN EXTENSION_INTERVALS : ToggleExtension(ext)
  \/ \E v \in VoicingSteps : SetChordVoicing(v)
  \/ \E t \in DOMAIN CHORD_INTERVALS : ChooseChordType(t)
  \/ \E k \in AllKeys : Press(k)
  \/ \E k \in AllKeys : SignalNoteOff(k)

SpecTheory == Init /\ [][NextTheory]_vars

\* The arpeggiator with the active-notes readout: the two keys of Keys, whose
\* chords share a pitch, and a click on any displayed pitch of theirs
ReadoutNotes == UNION {SeqToSet(ChordNotes(World, k)) : k \in Keys}

\* a key that is not pressed goes down
FirstPress(k) ==
  /\ k \notin pressedKeys
  /\ SignalNoteOn(k)

NextReadout ==
  \/ Gesture
  \/ LoadToneResolved("ensureAudioPc")
  \/ \E running \in BOOLEAN : EnsureReadySettled("ensureAudioPc", running)
  \/ \E k \in Keys : FirstPress(k)
  \/ \E k \in Keys : SignalNoteOff(k)
  \/ \E n \in ReadoutNotes : RemoveActiveNote(n)
  \/ SetPerformanceMode("arp")
  \/ \E h \in arpTimers : ArpTick(h)

SpecReadout == Init /\ [][NextReadout]_vars

\* The tempo dial on a ready synth with the arpeggiator: LaeliaSynth's effect
\* calls updateBpm with the dial's value (40..200)
Tempos == {60, 120}

SetBpm(b) ==
  /\ mounted /\ isReady
  /\ b # bpm
  /\ Step(updateBpm(On("updateBpm", 0, NoKey), b))

NextTempo ==
  \/ Gesture
  \/ LoadToneResolved("ensureAudioPc")
  \/ \E running \in BOOLEAN : EnsureReadySettled("ensureAudioPc", running)
  \/ \E k \in Keys : SignalNoteOn(k)
  \/ \E k \in Keys : SignalNoteOff(k)
  \/ SetPerformanceMode("arp")
  \/ \E b \in Tempos : SetBpm(b)
  \/ \E h \in arpTimers : ArpTick(h)

SpecTempo == Init /\ [][NextTempo]_vars

\* The landscape layout: the holder-set Keyboard on LaeliaSynth's handlers,
\* two pointers and the physical keyboard, in poly mode
HoldersPointerDown(p, k) ==
  /\ mounted
  /\ getPointerNote(World, p) = NoKey
  /\ Step(handlePointerDownHolders(On("pointerdown", p, k), p, k))

HoldersPointerMove(p, k) ==
  /\ mounted
  /\ getPointerNote(World, p) # NoKey
  /\ k # getPointerNote(World, p)
  /\ Step(handlePointerMoveHolders(On("pointermove", p, k), p, k))

\* pointerup, pointercancel, pointerleave and lostpointercapture, also for a
\* pointer that holds nothing
HoldersPointerEnd(p) ==
  /\ mounted
  /\ Step(handlePointerEndHolders(On("pointerup", p, getPointerNote(World, p)), p))

\* keydown (not a repeat) and keyup of a mapped key, in any order
HoldersKeyDown(k) ==
  /\ mounted
  /\ Step(handleKeyDownHolders(On("keydown", 0, k), k))

HoldersKeyUp(k) ==
  /\ mounted
  /\ Step(handleKeyUpHolders(On("keyup", 0, k), k))

HoldersUnmount ==
  /\ mounted
  /\ \E notes \in Orderings(HeldKeys(World)), disposeFirst \in BOOLEAN :
       Step([(IF disposeFirst
                THEN HoldersCleanup(dispose(On("unmount", 0, NoKey)), notes)
                ELSE dispose(HoldersCleanup(On("unmount", 0, NoKey), notes)))
               EXCEPT !.mounted = FALSE])

NextHolders ==
  \/ \E p \in Pointers, k \in Keys \cup {NoKey} : HoldersPointerDown(p, k)
  \/ \E p \in Pointers, k \in Keys \cup {NoKey} : HoldersPointerMove(p, k)
  \/ \E p \in Pointers : HoldersPointerEnd(p)
  \/ \E k \in Keys : HoldersKeyDown(k)
  \/ \E k \in Keys : HoldersKeyUp(k)
  \/ HoldersUnmount
  \/ LoadToneResolved("ensureAudioPc")
  \/ \E running \in BOOLEAN : EnsureReadySettled("ensureAudioPc", running)

SpecHolders == Init /\ [][NextHolders]_vars

\* Readiness: the keyboard's and a control's ensureAudio calls overlapping,
\* the browser suspending and resuming the context, keys played in poly
NextReady ==
  \/ Tap
  \/ DirectEnsureAudio
  \/ \E call \in Calls : LoadToneResolved(call)
  \/ \E call \in Calls, running \in BOOLEAN : EnsureReadySettled(call, running)
  \/ ContextSuspends
  \/ ContextResumes
  \/ \E k \in Keys : SignalNoteOn(k)
  \/ \E k \in Keys : SignalNoteOff(k)

SpecReady == Init /\ [][NextReady]_vars

\* The readout with staggered attacks pending: the two keys played in strum
\* and in arp and let go together, and a click on any displayed pitch
RemovalModes == {"strum", "arp"}

\* the displayed pitches that a held key still accounts for
DisplayedNotes == UNION {SeqToSet(activeVoices[i].notes) : i \in 1..Len(activeVoices)}

NextRemoval ==
  \/ Gesture
  \/ LoadToneResolved("ensureAudioPc")
  \/ \E running \in BOOLEAN : EnsureReadySettled("ensureAudioPc", running)
  \/ \E k \in Keys : FirstPress(k)
  \/ WindowBlur
  \/ \E n \in DisplayedNotes : RemoveActiveNote(n)
  \/ \E m \in RemovalModes : SetPerformanceMode(m)
  \/ \E h \in arpTimers : ArpTick(h)
  \/ AttackFire

SpecRemoval == Init /\ [][NextRemoval]_vars

\* ------------------------------------------------------------ properties
InTrace(tr, e) == \E i \in 1..Len(tr) : tr[i] = e
\* e1 occurs in tr, and before every occurrence of e2
Precedes(tr, e1, e2) ==
  \E i \in 1..Len(tr) : tr[i] = e1 /\ \A j \in 1..Len(tr) : tr[j] = e2 => i < j

VoiceKeys == {activeVoices[i].key : i \in 1..Len(activeVoices)}
NotesOfKey(k) ==
  UNION {SeqToSet(activeVoices[i].notes) : i \in {j \in 1..Len(activeVoices) : activeVoices[j].key = k}}
ClaimCount(k) ==
  Cardinality({p \in Pointers : activePointers[p] = k}) + (IF k \in keyboardKeys THEN 1 ELSE 0)

\* C1: releasing key k1 while another key k2 keeps its ledger entry issues no
\* triggerRelease for a pitch the two entries share.
C1_SharedPitchNotReleased ==
  [][\A k1 \in Keys : \A k2 \in Keys \ {k1} :
       (/\ event'.type = "onNoteOff" /\ event'.key = k1
        /\ k1 \in VoiceKeys /\ k2 \in VoiceKeys /\ k2 \in VoiceKeys')
       => \A p \in NotesOfKey(k1) \cap NotesOfKey(k2) : ~InTrace(trace', Release(p))]_vars

\* C2: a pointer-up or key-up that takes a claim off key k signals onNoteOff(k)
\* exactly when it took the last claim: with a pointer and the physical
\* keyboard both on k, the first of the two to let go signals nothing and the
\* second signals the release.
C2_ReleaseAfterLastClaim ==
  [][\A k \in Keys :
       (event'.type \in {"pointerup", "keyup"} /\ event'.key = k /\ ClaimCount(k) >= 1)
       => /\ ClaimCount(k)' = ClaimCount(k) - 1
          /\ InTrace(trace', NoteOff(k)) <=> ClaimCount(k) = 1]_vars

\* a key-up left the key claimed by a pointer and signalled nothing, or a
\* pointer-up left it claimed by the keyboard
C2_Witness ==
  /\ event.type \in {"pointerup", "keyup"}
  /\ ClaimCount(event.key) = 1
  /\ (event.type = "keyup") <=> (event.key \notin keyboardKeys)
  /\ trace = <<>>

\* C3: when a tracked pointer moves from key a to another key b, onNoteOn(b) is
\* signalled, onNoteOff(a) is signalled only after it, and only if no claim is
\* left on a.
C3_SlideOrder ==
  [][\A p \in Pointers : \A a \in Keys : \A b \in Keys \ {a} :
       (/\ event'.type = "pointermove" /\ event'.src = p /\ event'.key = b
        /\ activePointers[p] = a)
       => /\ InTrace(trace', NoteOn(b))
          /\ InTrace(trace', NoteOff(a))
               => /\ Precedes(trace', NoteOn(b), NoteOff(a))
                  /\ ClaimCount(a)' = 0]_vars

\* a slide that released the old key after entering the new one
C3_Witness ==
  /\ event.type = "pointermove"
  /\ event.key # NoKey
  /\ \E a \in Keys \ {event.key} :
       /\ InTrace(trace, NoteOff(a))
       /\ Precedes(trace, NoteOn(event.key), NoteOff(a))

\* the entry of key k in the ledger, as a sequence of pitches
EntryNotes(k) == Flatten([i \in 1..Len(activeVoices) |->
                            IF activeVoices[i].key = k THEN activeVoices[i].notes ELSE <<>>])

\* C4: in arp mode a press with no key held arms a new arp timeout and attacks
\* the lowest pitch of the new sequence, arpSequence[0], in the press itself;
\* the release of the last held key leaves no arp timeout pending and
\* releases the arp pitch that was sounding.
C4_ArpStartAndStop ==
  [][\A k \in Keys :
       /\ (/\ event'.type = "onNoteOn" /\ event'.key = k
           /\ performanceMode = "arp" /\ pressedKeys = {})
          => /\ arpTimeout' \in arpTimers' \ arpTimers
             /\ arpSequence' # <<>>
             /\ \A i \in 1..Len(arpSequence') :
                  noteToMidi(arpSequence'[1]) <= noteToMidi(arpSequence'[i])
             /\ currentArpNote' = arpSequence'[1]
             /\ InTrace(trace', Attack(arpSequence'[1]))
       /\ (/\ event'.type = "onNoteOff" /\ event'.key = k
           /\ performanceMode = "arp" /\ pressedKeys = {k})
          => /\ arpTimeout' = NoTimer
             /\ arpTimers' = {}
             /\ currentArpNote' = NoNote
             /\ \A n \in {currentArpNote} \ {NoNote} : InTrace(trace', Release(n))]_vars

\* C5: an arp tick fires only while the scheduler is armed, never between a
\* stopArp and the next press that starts it; and a step that leaves the
\* scheduler cancelled has released the pitch it left sounding.
C5_NoTickAfterStopArp ==
  [][/\ event'.type = "arpTick" => arpTimeout # NoTimer
     /\ arpTimeout' = NoTimer
          => /\ currentArpNote' = NoNote
             /\ \A n \in {currentArpNote} \ {NoNote} : InTrace(trace', Release(n))]_vars

\* C6: every call of setPerformanceMode leaves no arp timeout pending, the arp
\* pitch released and cleared, and the arp sequence and transition queue
\* empty.
C6_ModeSwitchStopsArp ==
  [][(event'.type = "setPerformanceMode" /\ isReady)
       => /\ performanceMode' = uiPerformanceMode'
          /\ arpTimeout' = NoTimer
          /\ arpTimers' = {}
          /\ currentArpNote' = NoNote
          /\ \A n \in {currentArpNote} \ {NoNote} : InTrace(trace', Release(n))
          /\ arpSequence' = <<>>
          /\ arpTransitionQueue' = <<>>]_vars

\* C7: after the release of key k no staggered attack created by a press of k
\* is pending, and after a press of k the pending attacks created by k are
\* those of this press alone: one per chord pitch after the first in strum and
\* harp mode, none in poly and arp mode.
C7_NoDanglingAttack ==
  [][\A k \in Keys :
       /\ (event'.type = "onNoteOff" /\ event'.key = k)
          => \A t \in attackTimers' : t.by # k
       /\ (event'.type = "onNoteOn" /\ event'.key = k)
          => Cardinality({t \in attackTimers' : t.by = k})
               = IF performanceMode \in {"strum", "harp"}
                   THEN Len(EntryNotes(k)') - 1 ELSE 0]_vars

\* C8 as stated: while the engine is ready the ledger has an entry for key k
\* if and only if some pointer or physical key claims k.
C8_LedgerIffClaimed ==
  isReadyEngine(World) => \A k \in Keys : k \in VoiceKeys <=> ClaimCount(k) >= 1

\* C8: while the engine is ready the ledger has an entry for key k only if
\* some pointer or physical key claims k; a claimed key need not have one.
C8_LedgerOnlyClaimed ==
  isReadyEngine(World) => \A k \in Keys : k \in VoiceKeys => ClaimCount(k) >= 1

\* one claimed key has its entry while another claimed key has none
C8_Witness ==
  /\ isReadyEngine(World)
  /\ \E k \in Keys : \E j \in Keys \ {k} :
       /\ k \in VoiceKeys /\ ClaimCount(k) >= 1
       /\ j \notin VoiceKeys /\ ClaimCount(j) >= 1

\* the chord of key k under the engine's current parameters
ChordOf(k) ==
  LET chordMidi == buildChord(World, 48 + k + key)
  IN [i \in 1..Len(chordMidi) |-> midiToNote(chordMidi[i])]
OctaveUp(notes) == [i \in 1..Len(notes) |-> <<notes[i][1], notes[i][2] + 1>>]

\* a release reaching pitch n comes before every attack in tr
ReleasedBeforeAttacks(tr, n) ==
  \E i \in 1..Len(tr) :
    /\ tr[i] \in {Release(n), ReleaseAll}
    /\ \A j \in 1..Len(tr) : tr[j].op = "triggerAttack" => i < j

\* playNote(k) in a non-arp mode on a key that has a ledger entry
Retrigger(k) ==
  /\ event'.type = "onNoteOn" /\ event'.key = k
  /\ performanceMode # "arp"
  /\ k \in VoiceKeys

\* C9 as stated: a non-arp playNote(k) on a key with an entry releases the old
\* entry's pitches before any attack and leaves exactly one entry for k, whose
\* pitches are the chord of k under the current parameters.
C9_RetriggerEntryIsChord ==
  [][\A k \in Keys : Retrigger(k)
       => /\ \A n \in NotesOfKey(k) : ReleasedBeforeAttacks(trace', n)
          /\ Cardinality({i \in 1..Len(activeVoices') : activeVoices'[i].key = k}) = 1
          /\ EntryNotes(k)' = ChordOf(k)]_vars

\* C9: a non-arp playNote(k) on a key with an entry releases the old entry's
\* pitches before any attack and leaves exactly one entry for k, whose pitches
\* are the chord of k under the current parameters, followed in harp mode by
\* the same chord one octave up.
C9_RetriggerReplacesEntry ==
  [][\A k \in Keys : Retrigger(k)
       => /\ \A n \in NotesOfKey(k) : ReleasedBeforeAttacks(trace', n)
          /\ Cardinality({i \in 1..Len(activeVoices') : activeVoices'[i].key = k}) = 1
          /\ EntryNotes(k)' = IF performanceMode = "harp"
                                THEN ChordOf(k) \o OctaveUp(ChordOf(k))
                                ELSE ChordOf(k)]_vars

\* key k, the only pressed key, was pressed again in harp mode while its bass
\* was sounding, and its entry holds the chord and its octave doubling
C9_Witness ==
  /\ event.type = "onNoteOn"
  /\ performanceMode = "harp"
  /\ pressedKeys = {event.key}
  /\ InTrace(trace, BassRelease)
  /\ InTrace(trace, ReleaseAll)
  /\ EntryNotes(event.key) = ChordOf(event.key) \o OctaveUp(ChordOf(event.key))

\* C10: a pointer-down or key-down on the keyboard while the engine is
\* uninitialized and no initialization is under way starts the initialization
\* and performs the resume call within the handler of that very event.
C10_UnlockInGesture ==
  [][(/\ event'.type \in {"pointerdown", "keydown"}
      /\ ~initialized /\ ~initStarted)
       => /\ initStarted'
          /\ InTrace(trace', Resume)]_vars

\* ------------------------------------------------------------------ C11
FailedAttempt ==
  \/ event'.type \in {"loadToneFailed", "initThrows"}
  \/ event'.type = "ensureReadySettled" /\ backends' = backends

\* C11: when the keyboard's initialization attempt fails (module load,
\* ensureReady or init failing or throwing) the component is back in
\* Uninitialized: isInitializing, isReady and the init-started flag are all
\* false, so the next gesture starts a fresh attempt.
C11_FailedAttemptResets ==
  [][(FailedAttempt /\ mounted /\ ~isReady /\ event'.src = 0)
       => ~isInitializing' /\ ~isReady' /\ ~initStarted']_vars

\* ------------------------------------------------------------------ C12
\* C12: however the ensureAudio calls overlap, init builds the backend at
\* most once.
C12_BackendBuiltOnce == backends <= 1

\* ------------------------------------------------------------------ C13
\* C13: when init fails, the synth, bass, analyser and effects fields are as
\* they were before the attempt.
C13_FailedInitLeavesNoResource ==
  [][FailedAttempt => /\ synth' = synth
                      /\ bassSynth' = bassSynth
                      /\ analyser' = analyser]_vars

\* ------------------------------------------------------------------ C14
\* the ledger, the arp state, the pending staggered attacks and the bass
Playing ==
  <<activeVoices, arpTimeout, arpTimers, arpIndex, arpSequence,
    arpTransitionQueue, currentArpNote, scheduledAttacks, attackTimers,
    currentBassNote>>

ReleaseCalls == {"releaseKey", "releaseNote", "releaseSpecificNote"}

\* C14 (as stated): playNote, releaseKey, releaseNote and releaseSpecificNote
\* called while the engine is not ready leave the ledger, the arp state, the
\* pending attacks and the bass unchanged, and playNote returns "".
C14_NotReadyCallsChangeNothing ==
  [][(event'.type \in ReleaseCalls \cup {"playNote"} /\ ~isReadyEngine(World))
       => Playing' = Playing /\ ret' = ""]_vars

\* C14 (amended): playNote called while the engine is not ready, and the
\* three release methods called before the backend has been constructed,
\* issue no call to the tone generator and leave the ledger, the arp state,
\* the pending attacks and the bass unchanged; playNote returns "".
C14_GuardedCallsChangeNothing ==
  [][(\/ event'.type = "playNote" /\ ~isReadyEngine(World)
      \/ event'.type \in ReleaseCalls /\ ~synth)
       => Playing' = Playing /\ trace' = <<>> /\ ret' = ""]_vars

\* playNote was called on a constructed engine whose context is suspended
\* while a key is held and the arp is running
C14_Witness ==
  /\ event.type = "playNote"
  /\ initialized /\ ctxState = "suspended"
  /\ activeVoices # <<>> /\ arpTimeout # NoTimer

\* ------------------------------------------------------------------ C15
\* handleNoteOff for the last pressed key, and the blur handlers while keys
\* are pressed, call releaseNote()
ReleaseNoteRan ==
  /\ event'.type \in {"onNoteOff", "blur"}
  /\ pressedKeys # {} /\ pressedKeys' = {}
  /\ synth /\ bassSynth /\ toneModule

\* C15: after releaseNote on an existing backend the ledger is empty, the arp
\* scheduler is cancelled (no timer pending, sequence and transition queue
\* empty), no staggered attack is pending, the bass note and the display
\* pitch list are cleared, and a release-all went to the chord synth and a
\* release to the bass voice.
C15_ReleaseNoteClearsAll ==
  [][ReleaseNoteRan
       => /\ activeVoices' = <<>>
          /\ arpTimeout' = NoTimer /\ arpTimers' = {}
          /\ arpSequence' = <<>> /\ arpTransitionQueue' = <<>>
          /\ scheduledAttacks' = <<>> /\ attackTimers' = {}
          /\ currentBassNote' = NoNote
          /\ currentChordNotes' = <<>>
          /\ InTrace(trace', ReleaseAll)
          /\ InTrace(trace', BassRelease)]_vars

\* ------------------------------------------------------------------ C16
CountIn(tr, e) == Cardinality({i \in 1..Len(tr) : tr[i] = e})

\* a key-down of k now would be signalled upstream as a new press
KeyDownAccepted(k) ==
  InTrace(handleKeyDown(On("keydown", 0, k), k).trace, NoteOn(k))

PlayNoteIsNoOp(k) ==
  playNote(On("playNote", 0, k), k) = On("playNote", 0, k)

\* C17: after dispose() (LaeliaSynth's unmount) the ledger, the display pitch
\* list and the arp state are empty, no arp timer and no staggered attack is
\* pending and isReady() is false; and whenever the engine is not initialized
\* playNote is a no-op returning the empty string.
C17_DisposeClearsAll ==
  [][/\ event'.type = "unmount"
       => /\ activeVoices' = <<>> /\ currentChordNotes' = <<>>
          /\ arpTimeout' = NoTimer /\ arpSequence' = <<>>
          /\ arpTransitionQueue' = <<>> /\ currentArpNote' = NoNote
          /\ arpTimers' = {}
          /\ scheduledAttacks' = <<>> /\ attackTimers' = {}
          /\ ~initialized'
     /\ ~initialized => \A k \in Keys : PlayNoteIsNoOp(k)]_vars

\* ------------------------------------------------------------------ C18
\* handleNoteOff(k) while other keys stay pressed calls releaseKey(k)
ReleaseKeyRan(k) ==
  /\ event'.type = "onNoteOff" /\ event'.key = k
  /\ pressedKeys \ {k} # {}

\* C18: releaseKey(k) for a key without a ledger entry issues no call to the
\* tone generator and leaves the ledger, the arp state, the pending attacks,
\* the bass state and the current chord unchanged.
C18_ReleaseOfUnknownKeyIsNoOp ==
  [][\A k \in Keys :
       (ReleaseKeyRan(k) /\ ~HasVoice(World, k))
         => /\ trace' = <<NoteOff(k)>>
            /\ Playing' = Playing
            /\ currentChordNotes' = currentChordNotes
            /\ currentNote' = currentNote
            /\ currentChord' = currentChord]_vars

\* releaseKey ran for a pressed key without an entry while another key is in
\* the ledger and the arp is running
C18_Witness ==
  /\ event.type = "onNoteOff"
  /\ trace = <<NoteOff(event.key)>>
  /\ pressedKeys # {} /\ activeVoices # <<>>
  /\ performanceMode = "arp" /\ arpTimeout # NoTimer

\* ------------------------------------------------------------------ C19
StrictlyAscending(seq) ==
  \A i \in 1..(Len(seq) - 1) : noteToMidi(seq[i]) < noteToMidi(seq[i + 1])

StrictlyDescending(seq) ==
  \A i \in 1..(Len(seq) - 1) : noteToMidi(seq[i]) > noteToMidi(seq[i + 1])

\* q leads from pitch c, strictly monotonically, to the member of S nearest
\* to c
TransitionBetween(q, c, S) ==
  /\ q # <<>>
  /\ c # NoNote
  /\ \/ StrictlyAscending(q) /\ noteToMidi(c) < noteToMidi(q[1])
     \/ StrictlyDescending(q) /\ noteToMidi(c) > noteToMidi(q[1])
  /\ q[Len(q)] \in S
  /\ \A n \in S : Abs(noteToMidi(q[Len(q)]) - noteToMidi(c))
                    <= Abs(noteToMidi(n) - noteToMidi(c))

\* in arp mode with one key held and the scheduler running, key k is pressed
\* and its chord shares no pitch with the held key's
SecondArpPress(k) ==
  /\ event'.type = "onNoteOn" /\ event'.key = k
  /\ performanceMode = "arp" /\ arpTimeout # NoTimer
  /\ Len(activeVoices) = 1 /\ activeVoices[1].key # k
  /\ SeqToSet(ChordNotes(World, k)) \cap SeqToSet(activeVoices[1].notes) = {}

UnionSize(k) ==
  Cardinality(SeqToSet(ChordNotes(World, k)) \cup SeqToSet(activeVoices[1].notes))

\* C19 (as stated): such a press makes activeSequence as long as the union of
\* both chords and makes the transition queue non-empty and strictly
\* monotonic between the old current pitch and the nearest new entry.
C19_SecondKeyQueuesTransition ==
  [][\A k \in ArpKeys :
       SecondArpPress(k)
         => /\ Len(arpSequence') = UnionSize(k)
            /\ TransitionBetween(arpTransitionQueue', currentArpNote,
                                 SeqToSet(arpSequence'))]_vars

\* C19 (amended): such a press makes activeSequence as long as the union of
\* both chords; the transition queue becomes empty when the old current pitch
\* is itself in the new sequence, and otherwise non-empty and strictly
\* monotonic between the old current pitch and the nearest new entry.
C19_SecondKeyTransition ==
  [][\A k \in ArpKeys :
       SecondArpPress(k)
         => /\ Len(arpSequence') = UnionSize(k)
            /\ IF currentArpNote \in SeqToSet(arpSequence')
                 THEN arpTransitionQueue' = <<>>
                 ELSE TransitionBetween(arpTransitionQueue', currentArpNote,
                                        SeqToSet(arpSequence'))]_vars

\* two keys with disjoint chords are held, the sounding pitch belongs to
\* neither and a transition towards the new sequence is queued
C19_Witness ==
  /\ event.type = "onNoteOn"
  /\ performanceMode = "arp" /\ arpTimeout # NoTimer
  /\ Len(activeVoices) = 2 /\ Len(arpSequence) = 6
  /\ currentArpNote # NoNote
  /\ currentArpNote \notin SeqToSet(arpSequence)
  /\ arpTransitionQueue # <<>>

\* ------------------------------------------------------------------ C20
\* in arp mode with the scheduler running, pointer 1, the only claim, slides
\* from key a to key b
ArpSlide(a, b) ==
  /\ event'.type = "pointermove" /\ event'.key = b
  /\ activePointers[1] = a /\ a # b
  /\ keyboardKeys = {}
  /\ performanceMode = "arp" /\ arpTimeout # NoTimer

\* C20: such a slide keeps the same scheduler running: onNoteOn(b) comes
\* before onNoteOff(a), the ledger is not empty between the two signals nor
\* afterwards, stopArp is not invoked (the current arp pitch is kept, no
\* release-all is issued, the sequence stays non-empty) and no timer is
\* started or cancelled.
C20_SlideKeepsArpRunning ==
  [][\A a \in Keys : \A b \in Keys :
       ArpSlide(a, b)
         => /\ Precedes(trace', NoteOn(b), NoteOff(a))
            /\ EnterKey(On("pointermove", 1, b), b).activeVoices # <<>>
            /\ activeVoices' # <<>>
            /\ arpTimeout' = arpTimeout /\ arpTimers' = arpTimers
            /\ currentArpNote' = currentArpNote
            /\ ~InTrace(trace', ReleaseAll)
            /\ arpSequence' # <<>>]_vars

\* the pointer has slid to a key that is now the only one in the ledger,
\* with the arp still running
C20_Witness ==
  /\ event.type = "pointermove" /\ event.key \in Keys
  /\ trace # <<>> /\ trace[1] = NoteOn(event.key)
  /\ keyboardKeys = {}
  /\ performanceMode = "arp" /\ arpTimeout # NoTimer
  /\ VoiceKeys = {event.key}

\* ------------------------------------------------------------------ C21
\* in arp mode key k, already in the ledger, is pressed again
ArpRepress(k) ==
  /\ event'.type = "onNoteOn" /\ event'.key = k
  /\ isReadyEngine(World)
  /\ performanceMode = "arp"
  /\ k \in VoiceKeys

\* C21: in arp mode a re-press of a held key issues no triggerRelease for
\* that key's pitches and neither stops nor restarts the scheduler (the
\* pending timeout stays the same one); the key's pitches are only
\* recomputed into the sequence.
C21_ArpRepressIsSoft ==
  [][\A k \in ArpKeys :
       ArpRepress(k)
         => /\ \A n \in NotesOfKey(k) : ~InTrace(trace', Release(n))
            /\ arpTimeout' = arpTimeout /\ arpTimers' = arpTimers
            /\ arpSequence' = getAllArpNotes(World)]_vars

\* ------------------------------------------------------------------ C22
EngineCalls == {"playNote", "releaseKey", "releaseNote", "releaseSpecificNote"}

\* C22: after playNote, releaseKey, releaseNote and releaseSpecificNote the
\* display list currentChordNotes holds exactly the pitches of the ledger
\* entries, each of them once, also when two held keys own the same pitch.
C22_DisplayIsDedupedUnion ==
  event.type \in EngineCalls
    => /\ SeqToSet(currentChordNotes) = SeqToSet(AllVoiceNotes(activeVoices))
       /\ Len(currentChordNotes) = Cardinality(SeqToSet(currentChordNotes))

\* ------------------------------------------------------------------ C23
\* the engine's parameters are the initial ones
DefaultParameters ==
  /\ chordType = "maj" /\ extensions = <<>> /\ performanceMode = "poly"
  /\ key = 0 /\ chordVoicing = 0 /\ bassVoicing = 0

\* the pitches the handler asked the chord synth to attack, one per call
AttackedNotes(tr) ==
  LET IsAttack(e) == e.op = "triggerAttack" IN SelectSeq(tr, IsAttack)

\* with nothing held, key 0 is pressed on a ready engine
DefaultPress ==
  /\ DefaultParameters
  /\ isReadyEngine(World) /\ pressedKeys = {} /\ activeVoices = <<>>
  /\ event'.type = "onNoteOn" /\ event'.key = 0

\* key 0, the only pressed key, is released
DefaultRelease ==
  /\ DefaultParameters
  /\ pressedKeys = {0} /\ VoiceKeys = {0}
  /\ event'.type = "onNoteOff" /\ event'.key = 0

\* C23: with the default parameters a press of key 0 returns the chord name
\* "C" and attacks exactly C, E and G of one octave and a bass C two octaves
\* below the chord's root; the release of key 0 releases the three pitches
\* and the bass and resets the displayed chord name to "".
C23_DefaultPressAndRelease ==
  [][/\ DefaultPress
          => /\ ret' = "C" /\ currentChord' = "C"
             /\ \E o \in 2..8 :
                  /\ [i \in 1..Len(AttackedNotes(trace')) |-> AttackedNotes(trace')[i].note]
                       = <<<<"C", o>>, <<"E", o>>, <<"G", o>>>>
                  /\ InTrace(trace', BassAttack(<<"C", o - 2>>))
     /\ DefaultRelease
          => /\ \/ InTrace(trace', ReleaseAll)
                \/ \A n \in NotesOfKey(0) : InTrace(trace', Release(n))
             /\ InTrace(trace', BassRelease)
             /\ currentChord' = ""]_vars

\* ------------------------------------------------------------------ C24
\* the offsets of the chord type and of the extensions that are on
ChordOffsets ==
  CHORD_INTERVALS[chordType]
    \o [i \in 1..Len(extensions) |-> EXTENSION_INTERVALS[extensions[i]]]

\* a key has just been pressed and playNote has built its chord
Pressed == event.type = "onNoteOn" /\ ret # ""

\* C24: for every chord type, every set of extensions in every order of
\* switching on and every voicing count v in 0..4, the chord built for a key
\* is made of the type's three offsets and one offset per extension, sorted
\* ascending and then raised by 12 at index i mod length for each i < v (the
\* result compared as a sorted list).
C24_VoicingOnSortedList ==
  Pressed
    => VoiceOf(World, event.key).notes
         = [i \in 1..Len(ChordOffsets) |->
              midiToNote(48 + event.key
                         + SortBy(Identity,
                                  RaiseVoicing(SortBy(Identity, ChordOffsets),
                                               0, chordVoicing))[i])]

\* ------------------------------------------------------------------ C25
TypeSuffix == [maj |-> "", min |-> "m", dim |-> "dim", sus |-> "sus4"]

ExtOn(e) == e \in SeqToSet(extensions)

\* the chord name the rule gives for root pitch class r
NameOf(r) ==
  NOTE_NAMES[r + 1] \o TypeSuffix[chordType]
    \o (IF ExtOn("M7") THEN "maj7" ELSE IF ExtOn("m7") THEN "7" ELSE "")
    \o (IF ExtOn("9") THEN "9" ELSE "")
    \o (IF ExtOn("6") THEN "6" ELSE "")

\* C25: the chord name returned for a pressed key is the root's name, the
\* type's suffix (maj "", min "m", dim "dim", sus "sus4"), "maj7" if M7 is
\* on and otherwise "7" if m7 is on, "9" if 9 is on and "6" if 6 is on, in
\* that order: (C, maj, {}) is "C", (C, min, {m7}) "Cm7", (C, maj, {M7, 9})
\* "Cmaj79" and (C, sus, {6}) "Csus46".
C25_ChordNameRule ==
  Pressed
    => /\ ret = NameOf((event.key + key) % 12)
       /\ event.key = 0 /\ chordType = "maj" /\ extensions = <<>> => ret = "C"
       /\ event.key = 0 /\ chordType = "min" /\ SeqToSet(extensions) = {"m7"}
            => ret = "Cm7"
       /\ event.key = 0 /\ chordType = "maj" /\ SeqToSet(extensions) = {"M7", "9"}
            => ret = "Cmaj79"
       /\ event.key = 0 /\ chordType = "sus" /\ SeqToSet(extensions) = {"6"}
            => ret = "Csus46"

\* C#, diminished, with all four extensions on
C25_Witness ==
  /\ Pressed
  /\ event.key = 1 /\ chordType = "dim"
  /\ SeqToSet(extensions) = {"6", "m7", "M7", "9"}
  /\ ret = "C#dimmaj796"

\* ------------------------------------------------------------------ C26
\* what a tick releases first: the sounding arp pitch, if there is one
TickRelease == IF currentArpNote # NoNote THEN <<Release(currentArpNote)>> ELSE <<>>

\* C26: every arp tick first releases the sounding arp pitch if there is
\* one; then it takes the head off a non-empty transition queue and attacks
\* it, leaving the index alone, or else sets the index to (index + 1) mod
\* the sequence's length and attacks the sequence's pitch at that index.
\* Exactly one pitch is attacked when the queue or the sequence is non-empty.
C26_TickReleasesThenAdvances ==
  [][event'.type = "arpTick"
       => IF arpTransitionQueue # <<>>
            THEN /\ trace' = TickRelease \o <<Attack(Head(arpTransitionQueue))>>
                 /\ arpTransitionQueue' = Tail(arpTransitionQueue)
                 /\ currentArpNote' = Head(arpTransitionQueue)
                 /\ arpIndex' = arpIndex
                 /\ arpSequence' = arpSequence
          ELSE IF arpSequence # <<>>
            THEN /\ arpIndex' = (arpIndex + 1) % Len(arpSequence)
                 /\ trace' = TickRelease \o <<Attack(arpSequence[arpIndex' + 1])>>
                 /\ currentArpNote' = arpSequence[arpIndex' + 1]
                 /\ arpSequence' = arpSequence
          ELSE trace' = TickRelease]_vars

\* a tick has released one pitch and attacked a pitch of the transition
\* queue: the sounding pitch is not the one the index points at
C26_Witness ==
  /\ event.type = "arpTick"
  /\ Len(trace) = 2 /\ trace[1].op = "triggerRelease"
  /\ trace[2] = Attack(currentArpNote)
  /\ arpSequence # <<>>
  /\ currentArpNote # arpSequence[arpIndex + 1]

\* ------------------------------------------------------------------ C27
Reverse(seq) == [i \in 1..Len(seq) |-> seq[Len(seq) + 1 - i]]

\* the members of S nearest in pitch to c
NearestIn(c, S) ==
  {t \in SeqToSet(S) :
     \A n \in SeqToSet(S) : Abs(noteToMidi(t) - noteToMidi(c))
                              <= Abs(noteToMidi(n) - noteToMidi(c))}

\* r is the transition the rule gives from pitch c to the sequence S
RuleTransition(c, S, r) ==
  \E t \in NearestIn(c, S) :
    LET Up(n) == noteToMidi(n) > noteToMidi(c) /\ noteToMidi(n) <= noteToMidi(t)
        Down(n) == noteToMidi(n) >= noteToMidi(t) /\ noteToMidi(n) < noteToMidi(c)
    IN /\ r = IF noteToMidi(t) > noteToMidi(c) THEN SelectSeq(S, Up)
              ELSE IF noteToMidi(t) < noteToMidi(c) THEN Reverse(SelectSeq(S, Down))
              ELSE <<>>
       /\ StrictlyAscending(r) \/ StrictlyDescending(r)
       /\ SeqToSet(r) \subseteq SeqToSet(S)
       /\ r # <<>> => r[Len(r)] = t

\* the ledger changes under a running arp that keeps running: the sequence
\* is rebuilt and a transition from the sounding pitch is computed
SequenceRebuilt ==
  /\ event'.type \in {"onNoteOn", "onNoteOff", "removeActiveNote"}
  /\ performanceMode = "arp" /\ arpTimeout # NoTimer /\ arpTimeout' = arpTimeout
  /\ arpSequence # <<>> /\ currentArpNote # NoNote
  /\ activeVoices' # <<>>
  /\ activeVoices' # activeVoices

\* C27: for the sounding pitch c and the new ascending sequence S,
\* buildArpTransition gives, with t the member of S nearest to c, the members
\* of S above c up to t in ascending order when t is above c, the members
\* from t up to below c in descending order when t is below c, and nothing
\* when t = c; the result is strictly monotonic, made of members of S, and
\* ends at t when it is not empty.
C27_TransitionRule ==
  [][SequenceRebuilt
       => /\ StrictlyAscending(arpSequence')
          /\ RuleTransition(currentArpNote, arpSequence', arpTransitionQueue')]_vars

\* a click on the readout removed the sounding pitch from the ledger and a
\* transition upwards to the nearest remaining pitch is queued
C27_Witness ==
  /\ event.type = "removeActiveNote"
  /\ arpTimeout # NoTimer /\ Len(arpTransitionQueue) >= 1
  /\ StrictlyAscending(arpTransitionQueue)
  /\ currentArpNote \notin SeqToSet(arpSequence)
  /\ noteToMidi(arpTransitionQueue[1]) > noteToMidi(currentArpNote)

\* ------------------------------------------------------------------ C28
\* C28: in arp mode, whenever the scheduler is running, arpSequence is
\* strictly ascending by pitch, has no duplicates and holds exactly the chord
\* pitches of the ledger's entries, after any sequence of playNote,
\* releaseKey and releaseSpecificNote.
C28_SequenceIsLedgerUnion ==
  (performanceMode = "arp" /\ arpTimeout # NoTimer)
    => /\ StrictlyAscending(arpSequence)
       /\ SeqToSet(arpSequence) = SeqToSet(AllVoiceNotes(activeVoices))

\* ------------------------------------------------------------------ C29
\* the pending arp timeouts whose delay is not the one for the current bpm
OldIntervalTimers == {t \in arpDelays : t[2] # ArpInterval(bpm)}

\* C29: each time the arp timeout is armed its delay is 60000 / bpm / 2 for
\* the bpm of that moment; so after updateBpm(b) under a running arp at most
\* one tick is still to be delivered at the old interval, and every timeout
\* armed later has the interval for b.
C29_TempoTakesEffectNextTick ==
  [][/\ \A t \in arpDelays' \ arpDelays : t[2] = ArpInterval(bpm')
     /\ event'.type = "arpTick"
          => <<arpTimeout', ArpInterval(bpm')>> \in arpDelays'
     /\ Cardinality(OldIntervalTimers') <= 1]_vars

\* ------------------------------------------------------------------ C30
\* key k is pressed on a ready engine in poly, strum or harp mode
NonArpPress(k) ==
  /\ event'.type = "onNoteOn" /\ event'.key = k
  /\ isReadyEngine(World)
  /\ performanceMode # "arp"

\* in tr a release-all comes before every attack of the chord and bass synth
ReleaseAllFirst(tr) ==
  \E i \in 1..Len(tr) :
    /\ tr[i] = ReleaseAll
    /\ \A j \in 1..Len(tr) : tr[j].op \in {"triggerAttack", "bassAttack"} => i < j

\* C30: in poly, strum and harp every playNote(k) first cancels the pending
\* staggered attacks, issues a release-all to the chord synth and empties
\* the ledger: right after it the only pending attacks are those of k's own
\* chord and the ledger holds exactly one entry, the one for k.
C30_NonArpPlayNoteIsSingleVoice ==
  [][\A k \in Keys :
       NonArpPress(k)
         => /\ ReleaseAllFirst(trace')
            /\ \A t \in attackTimers' : t.by = k /\ t.id \in SeqToSet(scheduledAttacks')
            /\ Cardinality(attackTimers') = Len(scheduledAttacks')
            /\ Len(scheduledAttacks')
                 = IF performanceMode = "poly" THEN 0 ELSE Len(activeVoices'[1].notes) - 1
            /\ Len(activeVoices') = 1 /\ activeVoices'[1].key = k]_vars

\* a key is pressed in strum mode while the other key is held with attacks
\* of its chord still pending: only the new key is in the ledger and only
\* its attacks are pending
C30_Witness ==
  /\ event.type = "onNoteOn" /\ performanceMode = "strum"
  /\ pressedKeys = Keys
  /\ VoiceKeys = {event.key}
  /\ attackTimers # {} /\ \A t \in attackTimers : t.by = event.key

\* ------------------------------------------------------------------ C31
\* C31: in the holder-set keyboard onNoteOn(k) is signalled exactly on the
\* steps that take k's holder set from empty to non-empty and onNoteOff(k)
\* exactly on those that take it from non-empty to empty, once each; hence
\* the two signals of a key strictly alternate, starting with onNoteOn,
\* under any interleaving of pointer and keyboard events.
C31_HolderSignalsAlternate ==
  [][\A k \in Keys :
       /\ InTrace(trace', NoteOn(k)) <=> (noteHolders[k] = {} /\ noteHolders'[k] # {})
       /\ InTrace(trace', NoteOff(k)) <=> (noteHolders[k] # {} /\ noteHolders'[k] = {})
       /\ CountIn(trace', NoteOn(k)) <= 1 /\ CountIn(trace', NoteOff(k)) <= 1]_vars

\* a pointer has slid off a key that the physical keyboard still holds: the
\* new key is signalled on, the old key is not signalled off
C31_Witness ==
  /\ event.type = "pointermove" /\ event.key \in Keys
  /\ InTrace(trace, NoteOn(event.key))
  /\ \E k \in Keys \ {event.key} :
       noteHolders[k] = {KeyboardHolder} /\ ~InTrace(trace, NoteOff(k))

\* C32: in every reachable state at most one arp timer is pending, and a step
\* arms a new arp timer only when none was pending or when the step is the
\* tick of the pending one, so that two tick chains never run together.
C32_AtMostOneArpTimer ==
  /\ Cardinality(arpTimers) <= 1
  /\ arpTimeout # NoTimer => arpTimers = {arpTimeout}

\* C33: in arp mode, when playNote has returned a chord name and the ledger
\* is not empty, the arp scheduler is running (a timeout is stored) and a
\* current arp pitch is sounding, whatever mode switches and presses came
\* before, a switch to arp with keys of another mode still held included.
C33_ArpRunsAfterPlayNote ==
  (ret # "" /\ performanceMode = "arp" /\ activeVoices # <<>>)
    => (arpTimeout # NoTimer /\ currentArpNote # <<>>)

\* C34: with the engine ready, whenever no pointer and no physical key claims
\* a key, the UI's pressed-key set and the ledger are empty, no arp timer and
\* no staggered attack is pending and the bass note is cleared.
C34_SilenceAfterLastRelease ==
  (mounted /\ isReadyEngine(World) /\ ClaimedKeys(World) = {})
    => /\ pressedKeys = {}
       /\ activeVoices = <<>>
       /\ arpTimers = {}
       /\ attackTimers = {} /\ scheduledAttacks = <<>>
       /\ currentBassNote = <<>>

\* the bass voice after the calls of one step: "off", "on", or "two" when a
\* bass attack met a bass pitch that had not been released
RECURSIVE BassAfter(_, _)
BassAfter(tr, s) ==
  IF tr = <<>> THEN s
  ELSE IF Head(tr).op = "bassAttack"
         THEN BassAfter(Tail(tr), IF s = "off" THEN "on" ELSE "two")
  ELSE IF Head(tr).op = "bassRelease"
         THEN BassAfter(Tail(tr), IF s = "two" THEN "two" ELSE "off")
  ELSE BassAfter(Tail(tr), s)

BassOf(b) == IF b = <<>> THEN "off" ELSE "on"

BassTracked == [][BassAfter(trace', BassOf(currentBassNote)) = BassOf(currentBassNote')]_vars

\* C35: in every reachable state an empty ledger means a silent bass voice:
\* currentBassNote is null, and currentBassNote is null exactly when the
\* last bass attack has been followed by a bass release; a bass attack never
\* meets a bass pitch that is still sounding.
C35_EmptyLedgerSilentBass ==
  /\ [](activeVoices = <<>> => currentBassNote = <<>>)
  /\ BassTracked

PcOf(call) == IF call = "ensureAudioPc" THEN ensureAudioPc ELSE directAudioPc

\* the step in which the ensureReady() of an ensureAudio call resolves to
\* true: at once on an initialized engine, or when init has constructed
ResolvesTrue(call) ==
  /\ event'.src = CallSrc(call)
  /\ \/ /\ event'.type = "loadToneResolved"
        /\ PcOf(call) = "loadTone" /\ PcOf(call)' = "idle"
     \/ /\ event'.type = "ensureReadySettled"
        /\ PcOf(call) = "ensureReady" /\ backends' = backends + 1

\* C36: whenever ensureReady resolves to true, isReady() is true at that
\* moment: the module is loaded, the backend is constructed and the audio
\* context is running, also on an engine that was initialized earlier and
\* whose context has since left the running state.
C36_EnsureReadyTrueIsReady ==
  [][\A call \in Calls :
       ResolvesTrue(call)
         => (toneModule' /\ initialized' /\ ctxState' = "running")]_vars

\* the statement as the spec has it: arpIndex is a valid index of a
\* non-empty arpSequence in every state of the arpeggiation
C37_ArpIndexInRange ==
  (performanceMode = "arp" /\ arpTimeout # NoTimer /\ arpSequence # <<>>)
    => (0 <= arpIndex /\ arpIndex < Len(arpSequence))

SequenceTick ==
  /\ event'.type = "arpTick"
  /\ arpTransitionQueue = <<>> /\ arpSequence # <<>>

\* C37: arpIndex is never negative, and every tick that plays from a
\* non-empty sequence leaves it a valid index 0 <= arpIndex < length, namely
\* the old index plus one reduced modulo the length, with the pitch at that
\* index sounding; between a shrink of the sequence and that tick it may
\* be the length or more.
C37_IndexValidAfterSequenceTick ==
  /\ [](arpIndex >= 0)
  /\ [][SequenceTick =>
          /\ arpIndex' = (arpIndex + 1) % Len(arpSequence)
          /\ arpIndex' < Len(arpSequence')
          /\ currentArpNote' = arpSequence'[arpIndex' + 1]]_vars

\* a tick has played from the sequence of the one key still held, after
\* the sequence of two keys had been walked beyond that length
C37_Witness ==
  /\ event.type = "arpTick"
  /\ arpTransitionQueue = <<>>
  /\ Cardinality(pressedKeys) = 1 /\ Len(arpSequence) = 3
  /\ arpIndex < Len(arpSequence)
  /\ currentArpNote = arpSequence[arpIndex + 1]

\* a step of releaseSpecificNote, and the pitch it was called with
PitchRemoval == event'.type = "removeActiveNote" /\ trace' # <<>>
RemovedPitch == trace'[1].note

LedgerKeys(ledger) == {ledger[i].key : i \in 1..Len(ledger)}
EntryOf(ledger, k) == ledger[CHOOSE i \in 1..Len(ledger) : ledger[i].key = k]
Without(notes, p) == LET Keep(n) == n # p IN SelectSeq(notes, Keep)

\* C38: releaseSpecificNote(p) takes p out of every ledger entry, deletes
\* exactly the entries left without a pitch and keeps every other pitch of
\* every entry; the bass state, the pending staggered attacks and the arp
\* timers are as before; afterwards no ledger entry contains p.
C38_ReleaseSpecificNoteFrame ==
  [][PitchRemoval =>
       /\ LedgerKeys(activeVoices') =
            {k \in LedgerKeys(activeVoices) :
               Without(EntryOf(activeVoices, k).notes, RemovedPitch) # <<>>}
       /\ Len(activeVoices') = Cardinality(LedgerKeys(activeVoices'))
       /\ \A k \in LedgerKeys(activeVoices') :
            /\ EntryOf(activeVoices', k).notes =
                 Without(EntryOf(activeVoices, k).notes, RemovedPitch)
            /\ EntryOf(activeVoices', k).bassNote = EntryOf(activeVoices, k).bassNote
            /\ RemovedPitch \notin SeqToSet(EntryOf(activeVoices', k).notes)
       /\ currentBassNote' = currentBassNote
       /\ \A i \in 1..Len(trace') : trace'[i].op \notin {"bassAttack", "bassRelease"}
       /\ scheduledAttacks' = scheduledAttacks /\ attackTimers' = attackTimers
       /\ arpTimeout' = arpTimeout /\ arpTimers' = arpTimers]_vars

\* both keys are down, the arp is running and staggered attacks are pending,
\* and removing a pitch has deleted the entry of one key and left the other
\* key's entry with its bass
C38_Witness ==
  /\ event.type = "removeActiveNote" /\ trace # <<>>
  /\ pressedKeys = Keys
  /\ Len(activeVoices) = 1
  /\ trace[1].note \notin SeqToSet(activeVoices[1].notes)
  /\ currentBassNote # <<>>
  /\ arpTimeout # NoTimer
  /\ scheduledAttacks # <<>> /\ attackTimers # {}

QueueTick == event'.type = "arpTick" /\ arpTransitionQueue # <<>>

\* C39: while the scheduler is running, a rebuild of the sequence replaces
\* arpSequence by the ascending pitches of the new ledger and the transition
\* queue by the transition from the sounding pitch, and leaves arpIndex and
\* currentArpNote as they were; a tick that plays from the queue leaves
\* arpIndex and the sequence as they were; a tick that finds the queue empty
\* goes on at (arpIndex + 1) mod the length of the sequence.
C39_RebuildKeepsIndex ==
  [][/\ SequenceRebuilt =>
          /\ arpIndex' = arpIndex
          /\ currentArpNote' = currentArpNote
          /\ StrictlyAscending(arpSequence')
          /\ SeqToSet(arpSequence') = SeqToSet(AllVoiceNotes(activeVoices'))
          /\ RuleTransition(currentArpNote, arpSequence', arpTransitionQueue')
     /\ QueueTick =>
          /\ arpIndex' = arpIndex
          /\ arpSequence' = arpSequence
          /\ arpTransitionQueue' = Tail(arpTransitionQueue)
     /\ SequenceTick =>
          /\ arpIndex' = (arpIndex + 1) % Len(arpSequence)
          /\ currentArpNote' = arpSequence[arpIndex' + 1]]_vars

\* a key went up under a running arp that had advanced: the sequence is
\* the other key's chord, a transition is queued and the index is kept
C39_Witness ==
  /\ event.type = "onNoteOff"
  /\ arpTimeout # NoTimer
  /\ Len(activeVoices) = 1 /\ Len(arpSequence) = 3
  /\ arpTransitionQueue # <<>>
  /\ arpIndex > 0

====
